---- MODULE Spec2Model ----
(***************************************************************************)
(* Records of the Hospital Management System (users, patients, visits and  *)
(* the visit lifecycle): ensure_db and the sqlite-backed DB class of the   *)
(* two source variants                                                     *)
(*   HMS  : src/HMS.py                                                     *)
(*   HMSP : src/HospitalManagementSystem-Python/HMS.py                     *)
(* The tables are sequences of rows; AUTOINCREMENT ids are the row's       *)
(* position, since no operation deletes a row.  Every DB method opens a    *)
(* connection, runs its statement, commits and closes: one action each.    *)
(* The handlers of the login, receptionist, doctor and pharmacist frames    *)
(* are actions of their own (RolesSpec): session holds the logged-in user  *)
(* and the visit of the window that is open.                               *)
(***************************************************************************)
EXTENDS Integers, Sequences, FiniteSets, TLC

\* ------------------------------------------------------------------ bounds
MaxPatients == 1
MaxVisits == 2
MaxOps == 3

\* ------------------------------------------------------------- value domains
HMS == "src/HMS.py"
HMSP == "src/HospitalManagementSystem-Python/HMS.py"
Variants == {HMS, HMSP}

\* Python None / SQL NULL in a text column or argument.
None == "None"
\* None / NULL in an integer id column or argument (AUTOINCREMENT ids start at 1).
NoId == 0
\* None / NULL in a time column or argument.  Times are "HH:MM" texts, held as
\* minutes since midnight; NULL sorts before every value, as in SQLite.
NoTime == -1

\* An optional dict argument: <<>> is None, <<d>> is the dict d.  A value of a
\* vitals dict is held as the text json.dumps writes for it: the int 78 as "78",
\* the float 98.6 as "98.6", the str "120/80" as "\"120/80\"", None as "null".
NoDict == << >>
EmptyDict == [k \in {} |-> 0]
Vitals1 == [hr |-> "78"]
Vitals2 == [hr |-> "72"]

\* vitals_samples of the seeding.
vitals_samples ==
    <<[bp |-> "\"120/80\"", hr |-> "78", temp |-> "98.6", resp |-> "16", spo2 |-> "98"],
      [bp |-> "\"130/85\"", hr |-> "72", temp |-> "98.4", resp |-> "18", spo2 |-> "99"],
      [bp |-> "\"118/75\"", hr |-> "65", temp |-> "98.8", resp |-> "15", spo2 |-> "97"],
      [bp |-> "\"140/90\"", hr |-> "82", temp |-> "99.1", resp |-> "20", spo2 |-> "96"]>>

\* The keys of a vitals dict, in the order every writer of the dict inserts them
\* (the order json.dumps writes them in, and json.loads reads them back in).
VitalsKeys == <<"bp", "hr", "temp", "resp", "spo2">>

Statuses == {"Scheduled", "In Progress", "Done", "Visit Pharmacy", "Come again"}
PharmacyStatuses == {"Pending", "In Progress", "Completed", "On Hold"}

\* datetime.now() as <<day, hour, minute, second>>; dates are day numbers.
Today == 20
Clock == {<<Today, 10, 15, 7>>, <<Today, 10, 16, 0>>}

\* Arguments the calls are made with.
PatientIdArgs == 1..(MaxPatients + 1)
VisitIdArgs == 1..MaxVisits
NameArgs == {"Ama Boateng"}
DateArgs == {Today}
TimeInArgs == {9 * 60}
ServiceArgs == {"General Consultation"}
StatusArgs == {"Scheduled", "Visit Pharmacy", "Done"}

\* A visit form as the receptionist submits it: nothing but the required fields,
\* or every field filled in.
BlankForm ==
    [assigned_doctor_id |-> NoId, time_out |-> NoTime, vitals_dict |-> <<EmptyDict>>,
     doctor_notes |-> None, pharmacy_instructions |-> None]
FilledForm ==
    [assigned_doctor_id |-> 3, time_out |-> 9 * 60 + 30, vitals_dict |-> <<Vitals1>>,
     doctor_notes |-> "Rest", pharmacy_instructions |-> "Dispense ibuprofen"]
VisitForms == {BlankForm, FilledForm}

\* Optional arguments of update_visit_status: each supplied alone, or none.
StatusForms ==
    {[doctor_notes |-> None, pharmacy_instructions |-> None, vitals_dict |-> NoDict],
     [doctor_notes |-> "Follow up", pharmacy_instructions |-> None, vitals_dict |-> NoDict],
     [doctor_notes |-> None, pharmacy_instructions |-> "Dispense ibuprofen",
      vitals_dict |-> NoDict],
     [doctor_notes |-> None, pharmacy_instructions |-> None, vitals_dict |-> <<Vitals2>>],
     [doctor_notes |-> None, pharmacy_instructions |-> None, vitals_dict |-> <<EmptyDict>>]}

VARIABLES variant, users, patients, visits, last, nops, session

vars == <<variant, users, patients, visits, last, nops, session>>

\* ------------------------------------------------------------ pure helpers
\* datetime.now().strftime("%H:%M"): the seconds are dropped.
strftime_HM(now) == now[2] * 60 + now[3]

\* Python truthiness of an optional dict: None and {} are falsy.
truthy_dict(d) == d # NoDict /\ DOMAIN d[1] # {}

\* Python truthiness of an optional string: None and "" are falsy.
truthy_str(s) == s # None /\ s # ""

\* json.dumps of a vitals dict: {"key": value, ...} with ", " and ": " as the
\* separators.
RECURSIVE json_members(_, _)
json_members(d, keys) ==
    IF keys = << >> THEN ""
    ELSE "\"" \o Head(keys) \o "\": " \o d[Head(keys)]
         \o (IF Len(keys) > 1 THEN ", " ELSE "") \o json_members(d, Tail(keys))

json_dumps(d) ==
    "{" \o json_members(d, SelectSeq(VitalsKeys, LAMBDA key : key \in DOMAIN d)) \o "}"

\* The vitals dicts that are written to vitals_json: those of the seeding, of the
\* visit forms and of the doctor's editor.
StoredVitals ==
    {EmptyDict, Vitals1, Vitals2} \cup {vitals_samples[i] : i \in DOMAIN vitals_samples}
    \cup {[bp |-> "\"130/85\"", hr |-> "80", temp |-> "99.1", resp |-> "18", spo2 |-> "97"],
          [hr |-> "65", temp |-> "98.6"],
          [hr |-> "65"],
          [bp |-> "\"130/85\"", temp |-> "98.4", resp |-> "18", spo2 |-> "99"],
          [bp |-> "\"120/80\"", hr |-> "75.0", temp |-> "98.6", resp |-> "16", spo2 |-> "98"],
          [bp |-> "\"130/85\"", hr |-> "80.0", temp |-> "99.1", resp |-> "18", spo2 |-> "97"],
          [bp |-> "\"N/A\"", hr |-> "null", temp |-> "null", resp |-> "null",
           spo2 |-> "null"]}

\* json.loads of a stored vitals_json text: the dict whose text it is.
json_loads(text) == CHOOSE d \in StoredVitals : json_dumps(d) = text

Range(seq) == {seq[i] : i \in DOMAIN seq}

\* The record of the call that produced the current state:
\* the arguments it was made with (None where it has no such argument), the id
\* it returned (rowid), any other value it returned, as its text, and the
\* exception it raised.
Call(op) ==
    [op |-> op, patient_id |-> NoId, visit_id |-> NoId, status |-> None,
     doctor_notes |-> None, pharmacy_instructions |-> None, vitals_dict |-> NoDict,
     full_name |-> None, address |-> None, dob |-> None, entries |-> << >>,
     now |-> << >>, rowid |-> NoId, returned |-> None, raised |-> None]

\* hashlib.sha256(text.encode("utf-8")).hexdigest() of the passwords in use.
sha256(text) ==
    CASE text = "recept123" -> "5545528042d61b4d32d7a713da5d0917f13af2d71cf2ffe5f8e3c6b11b78ffd0"
      [] text = "doctor123" -> "f348d5628621f3d8f59c8cabda0f8eb0aa7e0514a90be7571020b1336f26c113"
      [] text = "pharma123" -> "1c7d7f2a7668a1de0ea8f04a0ce6ff072e14781b052c51ee506a41b05d28b5cb"
      [] text = "wrong" -> "8810ad581e59f2bc3928b261707a71308f7e139eb04820366dc4d5c18d980225"
      [] text = "" -> "e3b0c44298fc1c149afbf4c8996fb92427ae41e4649b934ca495991b7852b855"

\* The running application: the user who is logged in (NoId on the login frame),
\* their role, and the visit of the window that user has open on a visit (the
\* receptionist's, doctor's or pharmacist's editor in src/HMS.py, current_visit_id
\* of the frame in HospitalManagementSystem-Python/HMS.py).
NoSession == [user_id |-> NoId, role |-> None, visit_id |-> NoId]

\* ------------------------------------------------------------------ seeding
\* INSERT INTO users of ensure_db in src/HMS.py, in order (DELETE FROM users first,
\* on a new file: the ids start at 1).
seed_users ==
    <<[id |-> 1, name |-> "MO11", mobile |-> "0788365067",
       password_hash |-> sha256("recept123"), role |-> "receptionist"],
      [id |-> 2, name |-> "Fabby", mobile |-> "0677532140",
       password_hash |-> sha256("recept123"), role |-> "receptionist"],
      [id |-> 3, name |-> "Mohammed Aminu", mobile |-> "7681969865",
       password_hash |-> sha256("doctor123"), role |-> "doctor"],
      [id |-> 4, name |-> "Collins Mark", mobile |-> "9781328959",
       password_hash |-> sha256("doctor123"), role |-> "doctor"],
      [id |-> 5, name |-> "Little MO", mobile |-> "0777730606",
       password_hash |-> sha256("pharma123"), role |-> "pharmacist"]>>

\* INSERT INTO users of ensure_db in HospitalManagementSystem-Python/HMS.py.
seed_users_HMSP ==
    <<[id |-> 1, name |-> "MO11", mobile |-> "0788365067",
       password_hash |-> sha256("recept123"), role |-> "receptionist"],
      [id |-> 2, name |-> "Fabby", mobile |-> "0677532140",
       password_hash |-> sha256("recept123"), role |-> "receptionist"],
      [id |-> 3, name |-> "AB", mobile |-> "7508602702",
       password_hash |-> sha256("recept123"), role |-> "receptionist"],
      [id |-> 4, name |-> "Mohammed Aminu", mobile |-> "7681969865",
       password_hash |-> sha256("doctor123"), role |-> "doctor"],
      [id |-> 5, name |-> "Collins Mark", mobile |-> "9781328959",
       password_hash |-> sha256("doctor123"), role |-> "doctor"],
      [id |-> 6, name |-> "Aaron Brown", mobile |-> "7508602701",
       password_hash |-> sha256("doctor123"), role |-> "doctor"],
      [id |-> 7, name |-> "Little MO", mobile |-> "0777730606",
       password_hash |-> sha256("pharma123"), role |-> "pharmacist"],
      [id |-> 8, name |-> "Shillah", mobile |-> "7508602703",
       password_hash |-> sha256("pharma123"), role |-> "pharmacist"]>>

sample_patients ==
    <<<<"John Doe", "123 Main St", "1990-01-01">>,
      <<"Jane Smith", "456 Oak Ave", "1985-03-15">>,
      <<"Robert Brown", "789 Pine Rd", "1978-07-22">>,
      <<"Emily Davis", "321 Elm St", "1995-12-10">>>>

\* The patients the seeding inserts, each stamped with the clock of the seeding.
seed_patients(now) ==
    [i \in DOMAIN sample_patients |->
        [id |-> i, full_name |-> sample_patients[i][1], address |-> sample_patients[i][2],
         dob |-> sample_patients[i][3], created_at |-> now]]

\* The doctor of the i-th sample visit of a day: 3 if i % 2 == 0 else 4.
seed_doctor_id(i) == IF i % 2 = 0 THEN 3 ELSE 4

\* In HospitalManagementSystem-Python/HMS.py: doctor_ids[(i - 1) % len(doctor_ids)],
\* doctor_ids being the ids of the users with role doctor.
seed_doctor_id_HMSP(i) ==
    LET doctor_ids == SelectSeq([k \in DOMAIN seed_users_HMSP |-> seed_users_HMSP[k].id],
                                LAMBDA id : seed_users_HMSP[id].role = "doctor")
    IN doctor_ids[((i - 1) % Len(doctor_ids)) + 1]

\* The sample visit i (1..4) of the day day_offset days before the seeding.  Its
\* time_in is the text f"09:{30+i%4}0" and its time_out f"10:{15+i%4}0" ("09:310",
\* "10:160", ...): texts that are no HH:MM time, held as hour * 60 + the number after
\* the colon, which keeps them distinct from, and ordered as texts against, the
\* HH:MM times of this model.
seed_visit(today, day_offset, i, assigned_doctor_id) ==
    [id |-> day_offset * Len(vitals_samples) + i,
     patient_id |-> IF i > Len(sample_patients) THEN Len(sample_patients) ELSE i,
     assigned_doctor_id |-> assigned_doctor_id,
     date |-> today - day_offset,
     time_in |-> 9 * 60 + (30 + (i % 4)) * 10,
     time_out |-> 10 * 60 + (15 + (i % 4)) * 10,
     service |-> "General Consultation",
     status |-> IF i % 2 = 0 THEN "Done" ELSE "Visit Pharmacy",
     vitals_json |-> json_dumps(vitals_samples[i]),
     doctor_notes |-> IF i % 2 = 0 THEN "Patient recovering well."
                      ELSE "Needs medication review.",
     pharmacy_instructions |-> IF i % 2 = 0 THEN "Take medication as prescribed"
                               ELSE "Dispense antibiotics and pain relievers",
     pharmacy_status |-> IF i % 2 = 0 THEN "Completed" ELSE "Pending"]

\* for day_offset in range(5): for i, vitals in enumerate(vitals_samples, 1).
SeedDays == 5

seed_visits(today) ==
    [n \in 1..(SeedDays * Len(vitals_samples)) |->
        seed_visit(today, (n - 1) \div Len(vitals_samples),
                   ((n - 1) % Len(vitals_samples)) + 1,
                   seed_doctor_id(((n - 1) % Len(vitals_samples)) + 1))]

seed_visits_HMSP(today) ==
    [n \in 1..(SeedDays * Len(vitals_samples)) |->
        seed_visit(today, (n - 1) \div Len(vitals_samples),
                   ((n - 1) % Len(vitals_samples)) + 1,
                   seed_doctor_id_HMSP(((n - 1) % Len(vitals_samples)) + 1))]

\* The clock when ensure_db seeds a new file.
SeedClock == <<Today, 8, 0, 0>>

\* The users table is written by the seeding only: it has rows exactly when
\* ensure_db found no database file and seeded one.
seeded == users # << >>

\* Rows the seeding put in the patients and visits tables.
seeded_patients == IF seeded THEN Len(sample_patients) ELSE 0
seeded_visits == IF seeded THEN SeedDays * Len(vitals_samples) ELSE 0

\* ensure_db() on an existing, empty database file: the tables are created
\* (CREATE TABLE IF NOT EXISTS) and nothing is seeded (create is False).
Init ==
    /\ variant \in Variants
    /\ users = << >>
    /\ patients = << >>
    /\ visits = << >>
    /\ last = Call("ensure_db")
    /\ nops = 0
    /\ session = NoSession

\* ensure_db() when there is no database file (create is True): the tables are
\* created, then the users, the sample patients and the sample visits are inserted.
SeededInit ==
    /\ variant \in Variants
    /\ users = IF variant = HMS THEN seed_users ELSE seed_users_HMSP
    /\ patients = seed_patients(SeedClock)
    /\ visits = IF variant = HMS THEN seed_visits(Today) ELSE seed_visits_HMSP(Today)
    /\ last = Call("ensure_db")
    /\ nops = 0
    /\ session = NoSession

\* ---------------------------------------------------------------- patients
\* created_at is datetime.now().isoformat(), which keeps every component of now.
add_patient(full_name, address, dob, now) ==
    /\ nops < MaxOps
    /\ Len(patients) < seeded_patients + MaxPatients
    /\ patients' = Append(patients,
            [id |-> Len(patients) + 1, full_name |-> full_name, address |-> address,
             dob |-> IF truthy_str(dob) THEN dob ELSE "",
             created_at |-> now])
    /\ last' = [Call("add_patient") EXCEPT !.rowid = Len(patients) + 1, !.now = now,
                    !.full_name = full_name, !.address = address, !.dob = dob]
    /\ nops' = nops + 1
    /\ UNCHANGED <<variant, users, visits, session>>

\* A slip in update_patient: the row is stamped again, as an insert stamps it.
update_patient_set_restamps(row, full_name, address, dob) ==
    [row EXCEPT !.full_name = full_name, !.address = address,
                !.dob = IF truthy_str(dob) THEN dob ELSE "",
                !.created_at = <<Today, 23, 59, 59>>]

\* SET full_name = ?, address = ?, dob = ? with dob bound as (dob or "").
update_patient_set(row, full_name, address, dob) ==
    [row EXCEPT !.full_name = full_name, !.address = address,
                !.dob = IF truthy_str(dob) THEN dob ELSE ""]

\* A slip in update_patient: the values are written with INSERT instead of UPDATE,
\* so every call stores them in a new row.
update_patient_rows_as_insert(rows, patient_id, full_name, address, dob) ==
    Append(rows, [id |-> Len(rows) + 1, full_name |-> full_name, address |-> address,
                  dob |-> IF truthy_str(dob) THEN dob ELSE "", created_at |-> SeedClock])

\* UPDATE patients SET ... WHERE id = ? on the rows of the table: an id that
\* matches no row updates nothing.
update_patient_rows(rows, patient_id, full_name, address, dob) ==
    [i \in DOMAIN rows |->
        IF rows[i].id = patient_id
        THEN update_patient_set(rows[i], full_name, address, dob)
        ELSE rows[i]]

\* update_patient returns True, whether or not a row was updated.
update_patient(patient_id, full_name, address, dob) ==
    /\ nops < MaxOps
    /\ patients' = update_patient_rows(patients, patient_id, full_name, address, dob)
    /\ last' = [Call("update_patient") EXCEPT !.patient_id = patient_id,
                    !.full_name = full_name, !.address = address, !.dob = dob,
                    !.returned = "True"]
    /\ nops' = nops + 1
    /\ UNCHANGED <<variant, users, visits, session>>

\* ------------------------------------------------------------------ visits
\* INSERT INTO visits: the new row takes the next AUTOINCREMENT id.
insert_visit(patient_id, assigned_doctor_id, visit_date, time_in, time_out, service, status, vitals_dict, doctor_notes, pharmacy_instructions, pharmacy_status) ==
    /\ nops < MaxOps
    /\ Len(visits) < seeded_visits + MaxVisits
    /\ visits' = Append(visits,
            [id |-> Len(visits) + 1, patient_id |-> patient_id,
             assigned_doctor_id |-> assigned_doctor_id, date |-> visit_date,
             time_in |-> time_in, time_out |-> time_out, service |-> service,
             status |-> status,
             vitals_json |-> IF truthy_dict(vitals_dict) THEN json_dumps(vitals_dict[1])
                             ELSE None,
             doctor_notes |-> doctor_notes,
             pharmacy_instructions |-> pharmacy_instructions,
             pharmacy_status |-> pharmacy_status])
    /\ last' = [Call("add_visit") EXCEPT !.patient_id = patient_id, !.status = status,
                    !.rowid = Len(visits) + 1]
    /\ nops' = nops + 1
    /\ UNCHANGED <<variant, users, patients, session>>

\* The pharmacy_status bound to the INSERT by src/HMS.py.
add_visit_pharmacy_status(status) == "Pending"

\* A slip in the conditional default: the two branches exchanged.
add_visit_pharmacy_status_swapped(status) ==
    IF status = "Visit Pharmacy" THEN "Not Applicable" ELSE "Pending"

\* The pharmacy_status bound to the INSERT by HospitalManagementSystem-Python/HMS.py.
add_visit_pharmacy_status_HMSP(status) ==
    IF status = "Visit Pharmacy" THEN "Pending" ELSE "Not Applicable"

add_visit(patient_id, assigned_doctor_id, visit_date, time_in, time_out, service, status, vitals_dict, doctor_notes, pharmacy_instructions) ==
    /\ variant = HMS
    /\ insert_visit(patient_id, assigned_doctor_id, visit_date, time_in, time_out,
                    service, status, vitals_dict, doctor_notes, pharmacy_instructions,
                    add_visit_pharmacy_status(status))

add_visit_HMSP(patient_id, assigned_doctor_id, visit_date, time_in, time_out, service, status, vitals_dict, doctor_notes, pharmacy_instructions) ==
    /\ variant = HMSP
    /\ insert_visit(patient_id, assigned_doctor_id, visit_date, time_in, time_out,
                    service, status, vitals_dict, doctor_notes, pharmacy_instructions,
                    add_visit_pharmacy_status_HMSP(status))

\* UPDATE visits SET ... WHERE id = ?: the SET clause is applied to the rows with
\* that id; an id that matches no row updates nothing and the call still returns.

\* A slip in update_visit: routing to the pharmacy also resets the sub-state.
update_visit_set_resets_pharmacy(row, assigned_doctor_id, visit_date, time_in, time_out, service, status, vitals_dict, doctor_notes, pharmacy_instructions) ==
    [row EXCEPT !.assigned_doctor_id = assigned_doctor_id, !.date = visit_date,
                !.time_in = time_in, !.time_out = time_out, !.service = service,
                !.status = status,
                !.vitals_json = IF truthy_dict(vitals_dict) THEN json_dumps(vitals_dict[1])
                                ELSE None,
                !.doctor_notes = doctor_notes,
                !.pharmacy_instructions = pharmacy_instructions,
                !.pharmacy_status = IF status = "Visit Pharmacy" THEN "Pending" ELSE @]

\* SET clause of update_visit (the same statement in both variants).
update_visit_set(row, assigned_doctor_id, visit_date, time_in, time_out, service, status, vitals_dict, doctor_notes, pharmacy_instructions) ==
    [row EXCEPT !.assigned_doctor_id = assigned_doctor_id, !.date = visit_date,
                !.time_in = time_in, !.time_out = time_out, !.service = service,
                !.status = status,
                !.vitals_json = IF truthy_dict(vitals_dict) THEN json_dumps(vitals_dict[1])
                                ELSE None,
                !.doctor_notes = doctor_notes,
                !.pharmacy_instructions = pharmacy_instructions]

update_visit(visit_id, assigned_doctor_id, visit_date, time_in, time_out, service, status, vitals_dict, doctor_notes, pharmacy_instructions) ==
    /\ nops < MaxOps
    /\ visits' = [i \in DOMAIN visits |->
            IF visits[i].id = visit_id
            THEN update_visit_set(visits[i], assigned_doctor_id, visit_date, time_in, time_out, service, status, vitals_dict, doctor_notes, pharmacy_instructions)
            ELSE visits[i]]
    /\ last' = [Call("update_visit") EXCEPT !.visit_id = visit_id, !.status = status]
    /\ nops' = nops + 1
    /\ UNCHANGED <<variant, users, patients, session>>

\* SET clause of update_visit_status in src/HMS.py: doctor_notes is always bound,
\* pharmacy_instructions only when truthy; there is no vitals parameter.
update_visit_status_set(row, new_status, doctor_notes, pharmacy_instructions) ==
    IF truthy_str(pharmacy_instructions)
    THEN [row EXCEPT !.status = new_status, !.doctor_notes = doctor_notes,
                     !.pharmacy_instructions = pharmacy_instructions]
    ELSE [row EXCEPT !.status = new_status, !.doctor_notes = doctor_notes]

update_visit_status(visit_id, new_status, doctor_notes, pharmacy_instructions) ==
    /\ variant = HMS
    /\ nops < MaxOps
    /\ visits' = [i \in DOMAIN visits |->
            IF visits[i].id = visit_id
            THEN update_visit_status_set(visits[i], new_status, doctor_notes, pharmacy_instructions)
            ELSE visits[i]]
    /\ last' = [Call("update_visit_status") EXCEPT !.visit_id = visit_id,
                    !.status = new_status, !.doctor_notes = doctor_notes,
                    !.pharmacy_instructions = pharmacy_instructions]
    /\ nops' = nops + 1
    /\ UNCHANGED <<variant, users, patients, session>>

\* SET clause of update_visit_status in HospitalManagementSystem-Python/HMS.py,
\* built from the arguments that are not None.
update_visit_status_set_HMSP(row, new_status, doctor_notes, pharmacy_instructions, vitals_dict) ==
    [row EXCEPT !.status = new_status,
                !.doctor_notes = IF doctor_notes # None THEN doctor_notes ELSE @,
                !.pharmacy_instructions =
                    IF pharmacy_instructions # None THEN pharmacy_instructions ELSE @,
                !.vitals_json = IF vitals_dict # NoDict THEN json_dumps(vitals_dict[1])
                                ELSE @]

update_visit_status_HMSP(visit_id, new_status, doctor_notes, pharmacy_instructions, vitals_dict) ==
    /\ variant = HMSP
    /\ nops < MaxOps
    /\ visits' = [i \in DOMAIN visits |->
            IF visits[i].id = visit_id
            THEN update_visit_status_set_HMSP(visits[i], new_status, doctor_notes, pharmacy_instructions, vitals_dict)
            ELSE visits[i]]
    /\ last' = [Call("update_visit_status") EXCEPT !.visit_id = visit_id,
                    !.status = new_status, !.doctor_notes = doctor_notes,
                    !.pharmacy_instructions = pharmacy_instructions,
                    !.vitals_dict = vitals_dict]
    /\ nops' = nops + 1
    /\ UNCHANGED <<variant, users, patients, session>>

\* A slip in update_pharmacy_status_and_timeout: time_out stamped on every call.
update_pharmacy_status_and_timeout_set_always_stamps(row, new_status, now) ==
    [row EXCEPT !.pharmacy_status = new_status, !.time_out = strftime_HM(now)]

\* SET clause of update_pharmacy_status_and_timeout in src/HMS.py.
update_pharmacy_status_and_timeout_set(row, new_status, now) ==
    IF new_status = "Completed"
    THEN [row EXCEPT !.pharmacy_status = new_status, !.time_out = strftime_HM(now)]
    ELSE [row EXCEPT !.pharmacy_status = new_status]

update_pharmacy_status_and_timeout(visit_id, new_status, now) ==
    /\ variant = HMS
    /\ nops < MaxOps
    /\ visits' = [i \in DOMAIN visits |->
            IF visits[i].id = visit_id
            THEN update_pharmacy_status_and_timeout_set(visits[i], new_status, now)
            ELSE visits[i]]
    /\ last' = [Call("update_pharmacy_status_and_timeout") EXCEPT !.visit_id = visit_id,
                    !.status = new_status,
                    !.now = IF new_status = "Completed" THEN now ELSE << >>]
    /\ nops' = nops + 1
    /\ UNCHANGED <<variant, users, patients, session>>

\* SET clause of update_pharmacy_status_and_timeout in
\* HospitalManagementSystem-Python/HMS.py: completion also closes the visit.
update_pharmacy_status_and_timeout_set_HMSP(row, new_status, now) ==
    IF new_status = "Completed"
    THEN [row EXCEPT !.pharmacy_status = new_status, !.status = "Done",
                     !.time_out = strftime_HM(now)]
    ELSE [row EXCEPT !.pharmacy_status = new_status]

update_pharmacy_status_and_timeout_HMSP(visit_id, new_status, now) ==
    /\ variant = HMSP
    /\ nops < MaxOps
    /\ visits' = [i \in DOMAIN visits |->
            IF visits[i].id = visit_id
            THEN update_pharmacy_status_and_timeout_set_HMSP(visits[i], new_status, now)
            ELSE visits[i]]
    /\ last' = [Call("update_pharmacy_status_and_timeout") EXCEPT !.visit_id = visit_id,
                    !.status = new_status,
                    !.now = IF new_status = "Completed" THEN now ELSE << >>]
    /\ nops' = nops + 1
    /\ UNCHANGED <<variant, users, patients, session>>

\* ----------------------------------------------------------------- queries
\* FROM visits v JOIN patients p ON v.patient_id = p.id: one <<v, p>> per match.
visits_join_patients ==
    {<<v, p>> \in Range(visits) \X Range(patients) : v.patient_id = p.id}

\* LEFT JOIN users u ON v.assigned_doctor_id = u.id, projected on u.name: NULL
\* when no user matches.
doctor_name(v) ==
    IF \E u \in Range(users) : u.id = v.assigned_doctor_id
    THEN (CHOOSE u \in Range(users) : u.id = v.assigned_doctor_id).name
    ELSE None

\* The dict the visit queries build from a joined row.
visit_dict(vp) ==
    [visit_id |-> vp[1].id, patient_id |-> vp[1].patient_id,
     patient_name |-> vp[2].full_name,
     assigned_doctor_id |-> vp[1].assigned_doctor_id, doctor_name |-> doctor_name(vp[1]),
     date |-> vp[1].date, time_in |-> vp[1].time_in, time_out |-> vp[1].time_out,
     service |-> vp[1].service, status |-> vp[1].status,
     vitals |-> IF truthy_str(vp[1].vitals_json) THEN json_loads(vp[1].vitals_json)
                ELSE EmptyDict,
     notes |-> vp[1].doctor_notes,
     pharmacy_instructions |-> vp[1].pharmacy_instructions,
     pharmacy_status |-> vp[1].pharmacy_status]

\* A slip in the ORDER BY clause: ASC in place of DESC.
comes_before_ascending(a, b) ==
    \/ a[1].date < b[1].date
    \/ a[1].date = b[1].date /\ a[1].time_in < b[1].time_in
    \/ a[1].date = b[1].date /\ a[1].time_in = b[1].time_in /\ a[1].id < b[1].id

\* ORDER BY v.date DESC, v.time_in DESC over joined rows; rows that tie come in
\* rowid order.
comes_before(a, b) ==
    \/ a[1].date > b[1].date
    \/ a[1].date = b[1].date /\ a[1].time_in > b[1].time_in
    \/ a[1].date = b[1].date /\ a[1].time_in = b[1].time_in /\ a[1].id < b[1].id

RECURSIVE order_by_date_time_desc(_)
order_by_date_time_desc(rows) ==
    IF rows = {} THEN << >>
    ELSE LET first == CHOOSE r \in rows : \A o \in rows \ {r} : comes_before(r, o)
         IN <<first>> \o order_by_date_time_desc(rows \ {first})

\* get_visit: fetchone() of the joined rows with v.id = visit_id; << >> is the
\* None it returns when there is no row, <<d>> the dict d.
get_visit(visit_id) ==
    LET rows == order_by_date_time_desc({vp \in visits_join_patients : vp[1].id = visit_id})
    IN IF rows = << >> THEN << >> ELSE <<visit_dict(rows[1])>>

\* WHERE clause of get_visits_for_pharmacy.
get_visits_for_pharmacy_where(v) ==
    v.pharmacy_status = "Pending" \/ v.status = "Visit Pharmacy"

get_visits_for_pharmacy ==
    LET rows == order_by_date_time_desc(
                    {vp \in visits_join_patients : get_visits_for_pharmacy_where(vp[1])})
    IN [i \in DOMAIN rows |-> visit_dict(rows[i])]

Next ==
    \/ \E n \in NameArgs, now \in Clock : add_patient(n, None, None, now)
    \/ \E p \in PatientIdArgs, dt \in DateArgs, ti \in TimeInArgs, sv \in ServiceArgs,
          st \in StatusArgs, f \in VisitForms :
            add_visit(p, f.assigned_doctor_id, dt, ti, f.time_out, sv, st, f.vitals_dict,
                      f.doctor_notes, f.pharmacy_instructions)
    \/ \E p \in PatientIdArgs, dt \in DateArgs, ti \in TimeInArgs, sv \in ServiceArgs,
          st \in StatusArgs, f \in VisitForms :
            add_visit_HMSP(p, f.assigned_doctor_id, dt, ti, f.time_out, sv, st,
                           f.vitals_dict, f.doctor_notes, f.pharmacy_instructions)
    \/ \E v \in VisitIdArgs, dt \in DateArgs, ti \in TimeInArgs, sv \in ServiceArgs,
          st \in StatusArgs, f \in VisitForms :
            update_visit(v, f.assigned_doctor_id, dt, ti, f.time_out, sv, st,
                         f.vitals_dict, f.doctor_notes, f.pharmacy_instructions)
    \/ \E v \in VisitIdArgs, st \in StatusArgs,
          f \in {g \in StatusForms : g.vitals_dict = NoDict} :
            update_visit_status(v, st, f.doctor_notes, f.pharmacy_instructions)
    \/ \E v \in VisitIdArgs, st \in StatusArgs, f \in StatusForms :
            update_visit_status_HMSP(v, st, f.doctor_notes, f.pharmacy_instructions,
                                     f.vitals_dict)
    \/ \E v \in VisitIdArgs, st \in PharmacyStatuses, now \in Clock :
            update_pharmacy_status_and_timeout(v, st, now)
    \/ \E v \in VisitIdArgs, st \in PharmacyStatuses, now \in Clock :
            update_pharmacy_status_and_timeout_HMSP(v, st, now)

Spec == Init /\ [][Next]_vars

\* ---------------------------------------------------- the seeded database
\* Arguments of the calls made on a seeded database: a seeded patient and an id
\* no patient has.
SeededPatientIdArgs == {1, Len(sample_patients) + MaxPatients + 1}
\* The clock when a patient is added to it.
SeededClock == {<<Today, 10, 15, 7>>}
SeededNameArgs == {"Ama Boateng", ""}
PatientForms ==
    {[full_name |-> "Ama Mensah", address |-> "12 Ring Rd", dob |-> "1991-04-02"],
     [full_name |-> "", address |-> "", dob |-> None]}

\* Visits booked on a seeded database: without and with a doctor, dated today,
\* tomorrow and six days back, for a stored patient and for an id no patient has.
VisitRequests ==
    {[patient_id |-> 1, visit_date |-> Today, status |-> "Scheduled", form |-> BlankForm],
     [patient_id |-> 1, visit_date |-> Today + 1, status |-> "Visit Pharmacy",
      form |-> FilledForm],
     [patient_id |-> 2, visit_date |-> Today - SeedDays, status |-> "Done",
      form |-> FilledForm],
     [patient_id |-> Len(sample_patients) + MaxPatients + 1, visit_date |-> Today,
      status |-> "Visit Pharmacy", form |-> BlankForm]}

SeededNext ==
    \/ \E n \in SeededNameArgs, now \in SeededClock : add_patient(n, None, None, now)
    \/ \E p \in SeededPatientIdArgs, f \in PatientForms :
            update_patient(p, f.full_name, f.address, f.dob)
    \/ \E r \in VisitRequests, ti \in TimeInArgs, sv \in ServiceArgs :
            add_visit(r.patient_id, r.form.assigned_doctor_id, r.visit_date, ti,
                      r.form.time_out, sv, r.status, r.form.vitals_dict,
                      r.form.doctor_notes, r.form.pharmacy_instructions)
    \/ \E r \in VisitRequests, ti \in TimeInArgs, sv \in ServiceArgs :
            add_visit_HMSP(r.patient_id, r.form.assigned_doctor_id, r.visit_date, ti,
                           r.form.time_out, sv, r.status, r.form.vitals_dict,
                           r.form.doctor_notes, r.form.pharmacy_instructions)

SeededSpec == SeededInit /\ [][SeededNext]_vars

\* ------------------------------------------------------------------ claims
visit_ids == {v.id : v \in Range(visits)}
patient_ids == {p.id : p \in Range(patients)}
visit_row(visit_id) == CHOOSE v \in Range(visits) : v.id = visit_id
pharmacy_queue_ids == LET queue == get_visits_for_pharmacy IN {queue[i].visit_id : i \in DOMAIN queue}
stamped_times == {strftime_HM(now) : now \in Clock}

\* C1: after update_pharmacy_status_and_timeout(id, "Completed") on an existing
\* visit, in both variants, get_visit(id) has status "Done", pharmacy_status
\* "Completed" and a non-null time_out equal to the clock time of the call.
C1_CompletedClosesVisit ==
    (/\ last.op = "update_pharmacy_status_and_timeout"
     /\ last.status = "Completed"
     /\ last.visit_id \in visit_ids)
    => /\ get_visit(last.visit_id) # << >>
       /\ get_visit(last.visit_id)[1].status = "Done"
       /\ get_visit(last.visit_id)[1].pharmacy_status = "Completed"
       /\ get_visit(last.visit_id)[1].time_out # NoTime
       /\ get_visit(last.visit_id)[1].time_out = strftime_HM(last.now)

\* C2: a visit created with status "Scheduled" and then given
\* update_visit_status(id, "Visit Pharmacy", pharmacy_instructions = non-empty text)
\* is in get_visits_for_pharmacy() with pharmacy_status "Pending".  Stated for the
\* visits of a stored patient, as in the scenario the claim comes from.
C2_RoutedVisitIsPendingInQueue ==
    [][(/\ last.op = "add_visit"
        /\ last.status = "Scheduled"
        /\ last.patient_id \in patient_ids
        /\ last'.op = "update_visit_status"
        /\ last'.visit_id = last.rowid
        /\ last'.status = "Visit Pharmacy"
        /\ truthy_str(last'.pharmacy_instructions))
       => (\E i \in DOMAIN get_visits_for_pharmacy' :
             /\ get_visits_for_pharmacy'[i].visit_id = last'.visit_id
             /\ get_visits_for_pharmacy'[i].pharmacy_status = "Pending")]_vars

\* C3: a visit with status "Visit Pharmacy" that is in get_visits_for_pharmacy() is
\* no longer returned by it right after
\* update_pharmacy_status_and_timeout(id, "Completed"), in both variants.
C3_CompletedLeavesQueue ==
    [][(/\ last'.op = "update_pharmacy_status_and_timeout"
        /\ last'.status = "Completed"
        /\ last'.visit_id \in pharmacy_queue_ids
        /\ visit_row(last'.visit_id).status = "Visit Pharmacy")
       => last'.visit_id \notin pharmacy_queue_ids']_vars

\* C4: get_visits_for_pharmacy() returns exactly the stored visits with
\* pharmacy_status "Pending" or status "Visit Pharmacy", each of them once,
\* whatever doctor and patient_id they carry, and no other visit.
C4_QueueIsExactlyPendingOrRouted ==
    /\ \A v \in Range(visits) :
         get_visits_for_pharmacy_where(v)
         => Cardinality({i \in DOMAIN get_visits_for_pharmacy :
                            get_visits_for_pharmacy[i].visit_id = v.id}) = 1
    /\ \A i \in DOMAIN get_visits_for_pharmacy :
         \E v \in Range(visits) :
            /\ v.id = get_visits_for_pharmacy[i].visit_id
            /\ get_visits_for_pharmacy_where(v)

\* C5: add_visit with any status other than "Visit Pharmacy" stores the new visit
\* with pharmacy_status "Not Applicable", in both variants.
C5_OtherStatusIsNotApplicable ==
    (last.op = "add_visit" /\ last.status # "Visit Pharmacy")
    => visit_row(last.rowid).pharmacy_status = "Not Applicable"

\* C6: a visit created by add_visit with status "Visit Pharmacy" has
\* pharmacy_status "Pending" immediately after creation.
C6_RoutedAtCreationIsPending ==
    (last.op = "add_visit" /\ last.status = "Visit Pharmacy")
    => /\ last.rowid \in visit_ids
       /\ visit_row(last.rowid).status = "Visit Pharmacy"
       /\ visit_row(last.rowid).pharmacy_status = "Pending"

C6_Witness ==
    /\ last.op = "add_visit"
    /\ last.status = "Visit Pharmacy"
    /\ variant = HMSP
    /\ last.rowid \in visit_ids

\* C7: update_visit_status, in both variants, writes the new status and only those
\* of doctor_notes, pharmacy_instructions and vitals the caller supplies; a field
\* left at its default None keeps its value.
C7_StatusUpdateIsSparse ==
    [][last'.op = "update_visit_status"
       => /\ DOMAIN visits' = DOMAIN visits
          /\ \A i \in DOMAIN visits :
               visits'[i] =
                 IF visits[i].id # last'.visit_id THEN visits[i]
                 ELSE [visits[i] EXCEPT
                         !.status = last'.status,
                         !.doctor_notes =
                            IF last'.doctor_notes # None THEN last'.doctor_notes ELSE @,
                         !.pharmacy_instructions =
                            IF last'.pharmacy_instructions # None
                            THEN last'.pharmacy_instructions ELSE @,
                         !.vitals_json =
                            IF last'.vitals_dict # NoDict
                            THEN json_dumps(last'.vitals_dict[1]) ELSE @]]_vars

\* C8: update_visit never changes the pharmacy_status of the visit it updates,
\* whatever status it writes, and changes no field of any other visit.
C8_UpdateVisitKeepsPharmacyStatus ==
    [][last'.op = "update_visit"
       => /\ DOMAIN visits' = DOMAIN visits
          /\ \A i \in DOMAIN visits :
               /\ visits'[i].pharmacy_status = visits[i].pharmacy_status
               /\ visits[i].id # last'.visit_id => visits'[i] = visits[i]]_vars

C8_Witness ==
    /\ last.op = "update_visit"
    /\ last.status = "Visit Pharmacy"
    /\ last.visit_id \in visit_ids
    /\ visit_row(last.visit_id).status = "Visit Pharmacy"
    /\ visit_row(last.visit_id).pharmacy_status \in {"Completed", "Not Applicable"}
    /\ Cardinality(visit_ids) > 1

\* C9: update_pharmacy_status_and_timeout(id, s) with s other than "Completed"
\* changes only pharmacy_status of visit id; its status, time_out and other fields,
\* and every other visit, are unchanged, also when the visit was completed before.
C9_OtherTargetOnlyRewritesPharmacyStatus ==
    [][(last'.op = "update_pharmacy_status_and_timeout" /\ last'.status # "Completed")
       => /\ patients' = patients
          /\ DOMAIN visits' = DOMAIN visits
          /\ \A i \in DOMAIN visits :
               visits'[i] =
                 IF visits[i].id = last'.visit_id
                 THEN [visits[i] EXCEPT !.pharmacy_status = last'.status]
                 ELSE visits[i]]_vars

C9_Witness ==
    /\ last.op = "update_pharmacy_status_and_timeout"
    /\ last.status = "On Hold"
    /\ last.visit_id \in visit_ids
    /\ visit_row(last.visit_id).pharmacy_status = "On Hold"
    /\ visit_row(last.visit_id).time_out \in stamped_times

\* C10: add_visit with a patient_id that matches no stored patient fails with
\* NotFound and adds no visit row.
C10_UnknownPatientIsRejected ==
    [][(last'.op = "add_visit" /\ last'.patient_id \notin patient_ids)
       => (last'.raised = "NotFound" /\ visits' = visits)]_vars

\* -------------------------------------------------------------------- texts
\* The characters of the texts of this model, in order.
Spelling ==
       "" :> <<>>
    @@ "Ama Boateng" :> <<"A", "m", "a", " ", "B", "o", "a", "t", "e", "n", "g">>
    @@ "Ama Mensah" :> <<"A", "m", "a", " ", "M", "e", "n", "s", "a", "h">>
    @@ "John Doe" :> <<"J", "o", "h", "n", " ", "D", "o", "e">>
    @@ "Jane Smith" :> <<"J", "a", "n", "e", " ", "S", "m", "i", "t", "h">>
    @@ "Robert Brown" :> <<"R", "o", "b", "e", "r", "t", " ", "B", "r", "o", "w", "n">>
    @@ "Emily Davis" :> <<"E", "m", "i", "l", "y", " ", "D", "a", "v", "i", "s">>
    @@ "123 Main St" :> <<"1", "2", "3", " ", "M", "a", "i", "n", " ", "S", "t">>
    @@ "456 Oak Ave" :> <<"4", "5", "6", " ", "O", "a", "k", " ", "A", "v", "e">>
    @@ "789 Pine Rd" :> <<"7", "8", "9", " ", "P", "i", "n", "e", " ", "R", "d">>
    @@ "321 Elm St" :> <<"3", "2", "1", " ", "E", "l", "m", " ", "S", "t">>
    @@ "12 Ring Rd" :> <<"1", "2", " ", "R", "i", "n", "g", " ", "R", "d">>
    @@ "1990-01-01" :> <<"1", "9", "9", "0", "-", "0", "1", "-", "0", "1">>
    @@ "1985-03-15" :> <<"1", "9", "8", "5", "-", "0", "3", "-", "1", "5">>
    @@ "1978-07-22" :> <<"1", "9", "7", "8", "-", "0", "7", "-", "2", "2">>
    @@ "1995-12-10" :> <<"1", "9", "9", "5", "-", "1", "2", "-", "1", "0">>
    @@ "1991-04-02" :> <<"1", "9", "9", "1", "-", "0", "4", "-", "0", "2">>
    @@ "General Consultation" :> <<"G", "e", "n", "e", "r", "a", "l", " ", "C", "o", "n", "s", "u", "l", "t", "a", "t", "i", "o", "n">>
    @@ "Rest" :> <<"R", "e", "s", "t">>
    @@ "Follow up" :> <<"F", "o", "l", "l", "o", "w", " ", "u", "p">>
    @@ "Dispense ibuprofen" :> <<"D", "i", "s", "p", "e", "n", "s", "e", " ", "i", "b", "u", "p", "r", "o", "f", "e", "n">>
    @@ "Patient recovering well." :> <<"P", "a", "t", "i", "e", "n", "t", " ", "r", "e", "c", "o", "v", "e", "r", "i", "n", "g", " ", "w", "e", "l", "l", ".">>
    @@ "Needs medication review." :> <<"N", "e", "e", "d", "s", " ", "m", "e", "d", "i", "c", "a", "t", "i", "o", "n", " ", "r", "e", "v", "i", "e", "w", ".">>
    @@ "Take medication as prescribed" :> <<"T", "a", "k", "e", " ", "m", "e", "d", "i", "c", "a", "t", "i", "o", "n", " ", "a", "s", " ", "p", "r", "e", "s", "c", "r", "i", "b", "e", "d">>
    @@ "Dispense antibiotics and pain relievers" :> <<"D", "i", "s", "p", "e", "n", "s", "e", " ", "a", "n", "t", "i", "b", "i", "o", "t", "i", "c", "s", " ", "a", "n", "d", " ", "p", "a", "i", "n", " ", "r", "e", "l", "i", "e", "v", "e", "r", "s">>
    @@ "john" :> <<"j", "o", "h", "n">>
    @@ "wrong" :> <<"w", "r", "o", "n", "g">>
    @@ "140/90" :> <<"1", "4", "0", "/", "9", "0">>
    @@ "78" :> <<"7", "8">>
    @@ "82" :> <<"8", "2">>
    @@ "98.4" :> <<"9", "8", ".", "4">>
    @@ "98.8" :> <<"9", "8", ".", "8">>
    @@ "99" :> <<"9", "9">>
    @@ "96" :> <<"9", "6">>
    @@ "_" :> <<"_">>
    @@ "zz" :> <<"z", "z">>
    @@ "pain" :> <<"p", "a", "i", "n">>
    @@ " 2 " :> <<" ", "2", " ">>
    @@ "0" :> <<"0">>
    @@ "1" :> <<"1">>
    @@ "2" :> <<"2">>
    @@ "3" :> <<"3">>
    @@ "4" :> <<"4">>
    @@ "5" :> <<"5">>
    @@ "6" :> <<"6">>
    @@ "7" :> <<"7">>
    @@ "8" :> <<"8">>
    @@ "9" :> <<"9">>
    @@ "10" :> <<"1", "0">>
    @@ "11" :> <<"1", "1">>
    @@ "12" :> <<"1", "2">>
    @@ "13" :> <<"1", "3">>
    @@ "14" :> <<"1", "4">>
    @@ "15" :> <<"1", "5">>
    @@ "16" :> <<"1", "6">>
    @@ "17" :> <<"1", "7">>
    @@ "18" :> <<"1", "8">>
    @@ "19" :> <<"1", "9">>
    @@ "20" :> <<"2", "0">>
    @@ "21" :> <<"2", "1">>
    @@ "22" :> <<"2", "2">>
    @@ "23" :> <<"2", "3">>
    @@ "24" :> <<"2", "4">>
    @@ "25" :> <<"2", "5">>
    @@ "26" :> <<"2", "6">>
    @@ "27" :> <<"2", "7">>
    @@ "28" :> <<"2", "8">>
    @@ "29" :> <<"2", "9">>
    @@ "30" :> <<"3", "0">>
    @@ "0788365067" :> <<"0", "7", "8", "8", "3", "6", "5", "0", "6", "7">>
    @@ "7681969865" :> <<"7", "6", "8", "1", "9", "6", "9", "8", "6", "5">>
    @@ "0777730606" :> <<"0", "7", "7", "7", "7", "3", "0", "6", "0", "6">>
    @@ "recept123" :> <<"r", "e", "c", "e", "p", "t", "1", "2", "3">>
    @@ "doctor123" :> <<"d", "o", "c", "t", "o", "r", "1", "2", "3">>
    @@ "pharma123" :> <<"p", "h", "a", "r", "m", "a", "1", "2", "3">>
    @@ "120/80" :> <<"1", "2", "0", "/", "8", "0">>
    @@ "130/85" :> <<"1", "3", "0", "/", "8", "5">>
    @@ "118/75" :> <<"1", "1", "8", "/", "7", "5">>
    @@ "98.6" :> <<"9", "8", ".", "6">>
    @@ "99.1" :> <<"9", "9", ".", "1">>
    @@ "98.60" :> <<"9", "8", ".", "6", "0">>
    @@ "72" :> <<"7", "2">>
    @@ "98" :> <<"9", "8">>
    @@ "80" :> <<"8", "0">>
    @@ "97" :> <<"9", "7">>
    @@ "65" :> <<"6", "5">>
    @@ " 65" :> <<" ", "6", "5">>
    @@ "75" :> <<"7", "5">>
    @@ "N/A" :> <<"N", "/", "A">>

chars(text) == Spelling[text]

\* str(n) of an int.
str(n) == ToString(n)

\* The lower-case form of an ASCII letter (SQLite's LIKE folds the case of ASCII
\* letters only).
LowerCase ==
       "A" :> "a"
    @@ "B" :> "b"
    @@ "C" :> "c"
    @@ "D" :> "d"
    @@ "E" :> "e"
    @@ "F" :> "f"
    @@ "G" :> "g"
    @@ "H" :> "h"
    @@ "I" :> "i"
    @@ "J" :> "j"
    @@ "K" :> "k"
    @@ "L" :> "l"
    @@ "M" :> "m"
    @@ "N" :> "n"
    @@ "O" :> "o"
    @@ "P" :> "p"
    @@ "Q" :> "q"
    @@ "R" :> "r"
    @@ "S" :> "s"
    @@ "T" :> "t"
    @@ "U" :> "u"
    @@ "V" :> "v"
    @@ "W" :> "w"
    @@ "X" :> "x"
    @@ "Y" :> "y"
    @@ "Z" :> "z"

lower(c) == IF c \in DOMAIN LowerCase THEN LowerCase[c] ELSE c

DigitValue ==
       "0" :> 0
    @@ "1" :> 1
    @@ "2" :> 2
    @@ "3" :> 3
    @@ "4" :> 4
    @@ "5" :> 5
    @@ "6" :> 6
    @@ "7" :> 7
    @@ "8" :> 8
    @@ "9" :> 9

\* Does pattern[i..] match text[j..] as SQLite's LIKE matches: % stands for any run
\* of characters, _ for any one character, a letter for itself in either case.
RECURSIVE like_from(_, _, _, _)
like_from(pattern, i, text, j) ==
    IF i > Len(pattern) THEN j > Len(text)
    ELSE IF pattern[i] = "%"
         THEN \/ i = Len(pattern)
              \/ like_from(pattern, i + 1, text, j)
              \/ (j <= Len(text) /\ like_from(pattern, i, text, j + 1))
    ELSE /\ j <= Len(text)
         /\ (pattern[i] = "_" \/ lower(pattern[i]) = lower(text[j]))
         /\ like_from(pattern, i + 1, text, j + 1)

\* column LIKE ? with f"%{search_term}%" bound: NULL LIKE ... is NULL, which a
\* WHERE clause takes as false.
like_contains(column, search_term) ==
    /\ column # None
    /\ like_from(<<"%">> \o chars(search_term) \o <<"%">>, 1, chars(column), 1)

\* str.strip(): the blanks at both ends removed.
RECURSIVE strip(_)
strip(cs) ==
    IF cs = << >> THEN cs
    ELSE IF Head(cs) = " " THEN strip(Tail(cs))
    ELSE IF cs[Len(cs)] = " " THEN strip(SubSeq(cs, 1, Len(cs) - 1))
    ELSE cs

RECURSIVE digits_value(_)
digits_value(cs) ==
    IF cs = << >> THEN 0
    ELSE IF cs[Len(cs)] = "_" THEN digits_value(SubSeq(cs, 1, Len(cs) - 1))
    ELSE digits_value(SubSeq(cs, 1, Len(cs) - 1)) * 10 + DigitValue[cs[Len(cs)]]

\* int(text): << >> stands for the ValueError, <<n>> for the int n.  Blanks around
\* the number are ignored, a sign may lead it, and single underscores may separate
\* its digits.
int(text) ==
    LET stripped == strip(chars(text))
        signed == stripped # << >> /\ Head(stripped) \in {"+", "-"}
        body == IF signed THEN Tail(stripped) ELSE stripped
        wellformed ==
            /\ body # << >>
            /\ \A k \in DOMAIN body : body[k] \in DOMAIN DigitValue \/ body[k] = "_"
            /\ body[1] # "_" /\ body[Len(body)] # "_"
            /\ \A k \in 1..(Len(body) - 1) : ~(body[k] = "_" /\ body[k + 1] = "_")
    IN IF ~wellformed THEN << >>
       ELSE IF signed /\ Head(stripped) = "-" THEN <<0 - digits_value(body)>>
       ELSE <<digits_value(body)>>

\* The value SQLite compares with an INTEGER column when a text is bound to
\* "id = ?": the column's affinity turns a text that is a well-formed integer
\* (blanks around it allowed) into that integer; any other text equals no integer.
\* Texts that spell a real number do not occur among the search terms.
integer_affinity(cs) ==
    LET stripped == strip(cs)
        signed == stripped # << >> /\ Head(stripped) \in {"+", "-"}
        body == IF signed THEN Tail(stripped) ELSE stripped
        wellformed == body # << >> /\ \A k \in DOMAIN body : body[k] \in DOMAIN DigitValue
    IN IF ~wellformed THEN << >>
       ELSE IF signed /\ Head(stripped) = "-" THEN <<0 - digits_value(body)>>
       ELSE <<digits_value(body)>>

\* "".join(cs): the text with the characters cs.
RECURSIVE join(_)
join(cs) == IF cs = << >> THEN "" ELSE Head(cs) \o join(Tail(cs))

\* text.strip() of a text.
strip_text(text) == join(strip(chars(text)))

\* cs without the zeros it ends with.
RECURSIVE without_trailing_zeros(_)
without_trailing_zeros(cs) ==
    IF cs # << >> /\ cs[Len(cs)] = "0" THEN without_trailing_zeros(SubSeq(cs, 1, Len(cs) - 1))
    ELSE cs

\* float(text) of a decimal numeral, held as the text repr() and json.dumps write
\* for the float ("75" gives "75.0", "98.60" gives "98.6"): << >> stands for the
\* ValueError.  Numerals with an exponent, an underscore, or sixteen digits and
\* more (and inf, nan) do not occur among the texts of this model.
float(text) ==
    LET stripped == strip(chars(text))
        signed == stripped # << >> /\ Head(stripped) \in {"+", "-"}
        body == IF signed THEN Tail(stripped) ELSE stripped
        points == {k \in DOMAIN body : body[k] = "."}
        point == IF points = {} THEN Len(body) + 1 ELSE CHOOSE k \in points : TRUE
        whole == SubSeq(body, 1, point - 1)
        fraction == SubSeq(body, point + 1, Len(body))
        wellformed ==
            /\ Cardinality(points) <= 1
            /\ \A k \in DOMAIN body : body[k] \in DOMAIN DigitValue \/ body[k] = "."
            /\ Len(whole) + Len(fraction) > 0
    IN IF ~wellformed THEN << >>
       ELSE <<(IF signed /\ Head(stripped) = "-" THEN "-" ELSE "")
              \o ToString(digits_value(whole)) \o "."
              \o (IF without_trailing_zeros(fraction) = << >> THEN "0"
                  ELSE join(without_trailing_zeros(fraction)))>>

\* json.dumps of a str that has no character json.dumps escapes.
json_string(text) == "\"" \o text \o "\""

\* ------------------------------------------------- queries on the records
\* A slip in authenticate_user: the hash comparison left out.
authenticate_user_any_password(mobile, password_plain) ==
    LET rows == SelectSeq(users, LAMBDA u : u.mobile = mobile)
    IN IF rows = << >> THEN << >>
       ELSE <<[id |-> rows[1].id, name |-> rows[1].name, mobile |-> rows[1].mobile,
               role |-> rows[1].role]>>

\* authenticate_user: fetchone() of the users with that mobile; << >> is the None it
\* returns, <<d>> the dict d (which leaves the hash out).
authenticate_user(mobile, password_plain) ==
    LET rows == SelectSeq(users, LAMBDA u : u.mobile = mobile)
    IN IF rows = << >> THEN << >>
       ELSE IF sha256(password_plain) = rows[1].password_hash
            THEN <<[id |-> rows[1].id, name |-> rows[1].name, mobile |-> rows[1].mobile,
                    role |-> rows[1].role]>>
            ELSE << >>

reverse(seq) == [i \in 1..Len(seq) |-> seq[Len(seq) + 1 - i]]

\* WHERE clause of search_patients in src/HMS.py: the id branch is there only when
\* int(search_term) raises no ValueError.
search_patients_where(p, search_term) ==
    \/ int(search_term) # << >> /\ p.id = int(search_term)[1]
    \/ like_contains(p.full_name, search_term)
    \/ like_contains(p.address, search_term)
    \/ like_contains(p.dob, search_term)

\* SELECT ... FROM patients WHERE ... ORDER BY id DESC, as the list of dicts.
search_patients(search_term) ==
    reverse(SelectSeq(patients, LAMBDA p : search_patients_where(p, search_term)))

\* WHERE clause of search_patients in HospitalManagementSystem-Python/HMS.py: the
\* stripped text itself is bound to "id = ?".
search_patients_where_HMSP(p, search_term) ==
    \/ like_contains(p.full_name, search_term)
    \/ like_contains(p.address, search_term)
    \/ like_contains(p.dob, search_term)
    \/ LET n == integer_affinity(strip(chars(search_term)))
       IN n # << >> /\ p.id = n[1]

search_patients_HMSP(search_term) ==
    reverse(SelectSeq(patients, LAMBDA p : search_patients_where_HMSP(p, search_term)))

\* JOIN users u ON v.assigned_doctor_id = u.id: the visit has a row only when a
\* user has that id.
join_users(v) == \E u \in Range(users) : u.id = v.assigned_doctor_id

\* A slip in search_visits: the parentheses around the OR branches left out, so
\* that AND binds the pharmacy condition to the last branch only.
search_visits_where_unparenthesised(vp, search_term, role) ==
    IF role = "pharmacy"
    THEN \/ int(search_term) # << >> /\ vp[1].id = int(search_term)[1]
         \/ like_contains(vp[2].full_name, search_term)
         \/ like_contains(vp[1].service, search_term)
         \/ /\ like_contains(vp[1].pharmacy_instructions, search_term)
            /\ (vp[1].pharmacy_status = "Pending" \/ vp[1].status = "Visit Pharmacy")
    ELSE \/ int(search_term) # << >> /\ vp[1].id = int(search_term)[1]
         \/ like_contains(vp[2].full_name, search_term)
         \/ like_contains(vp[1].service, search_term)
         \/ like_contains(vp[1].doctor_notes, search_term)
         \/ like_contains(vp[1].pharmacy_instructions, search_term)

\* WHERE clauses of search_visits in src/HMS.py, for the four queries it chooses
\* from: int(search_term) raising or not, role "pharmacy" or any other.
search_visits_where(vp, search_term, role) ==
    IF role = "pharmacy"
    THEN /\ \/ int(search_term) # << >> /\ vp[1].id = int(search_term)[1]
            \/ like_contains(vp[2].full_name, search_term)
            \/ like_contains(vp[1].service, search_term)
            \/ like_contains(vp[1].pharmacy_instructions, search_term)
         /\ (vp[1].pharmacy_status = "Pending" \/ vp[1].status = "Visit Pharmacy")
    ELSE \/ int(search_term) # << >> /\ vp[1].id = int(search_term)[1]
         \/ like_contains(vp[2].full_name, search_term)
         \/ like_contains(vp[1].service, search_term)
         \/ like_contains(vp[1].doctor_notes, search_term)
         \/ like_contains(vp[1].pharmacy_instructions, search_term)

\* The rows search_visits selects in src/HMS.py: visits joined with their patient
\* and, by an inner join, with their doctor.
search_visits_rows(search_term, role) ==
    {vp \in visits_join_patients :
        join_users(vp[1]) /\ search_visits_where(vp, search_term, role)}

\* WHERE clause search_visits builds in HospitalManagementSystem-Python/HMS.py.
search_visits_where_HMSP(vp, search_term, role) ==
    /\ \/ like_contains(vp[2].full_name, search_term)
       \/ LET n == integer_affinity(strip(chars(search_term)))
          IN n # << >> /\ (vp[1].patient_id = n[1] \/ vp[1].id = n[1])
    /\ role = "pharmacy"
       => (vp[1].pharmacy_status = "Pending" \/ vp[1].status = "Visit Pharmacy")

\* The rows it selects: the doctor is LEFT JOINed, so no visit is lost for it.
search_visits_rows_HMSP(search_term, role) ==
    {vp \in visits_join_patients : search_visits_where_HMSP(vp, search_term, role)}

\* The dict search_visits builds from a selected row.
search_visits_dict(vp) ==
    [visit_id |-> vp[1].id, patient_id |-> vp[1].patient_id,
     patient_name |-> vp[2].full_name, date |-> vp[1].date, time_in |-> vp[1].time_in,
     time_out |-> vp[1].time_out, service |-> vp[1].service, status |-> vp[1].status,
     vitals |-> IF truthy_str(vp[1].vitals_json) THEN json_loads(vp[1].vitals_json)
                ELSE EmptyDict,
     notes |-> vp[1].doctor_notes,
     pharmacy_instructions |-> vp[1].pharmacy_instructions,
     pharmacy_status |-> vp[1].pharmacy_status, doctor_name |-> doctor_name(vp[1])]

search_visits(search_term, role) ==
    LET rows == order_by_date_time_desc(search_visits_rows(search_term, role))
    IN [i \in DOMAIN rows |-> search_visits_dict(rows[i])]

search_visits_HMSP(search_term, role) ==
    LET rows == order_by_date_time_desc(search_visits_rows_HMSP(search_term, role))
    IN [i \in DOMAIN rows |-> search_visits_dict(rows[i])]

\* The calendar dates of the day numbers of this model, as <<year, month, day>>:
\* day 17 is 2025-02-28 and day 18 is 2025-03-01.
Calendar ==
       8 :> <<2025, 2, 19>>
    @@ 9 :> <<2025, 2, 20>>
    @@ 10 :> <<2025, 2, 21>>
    @@ 11 :> <<2025, 2, 22>>
    @@ 12 :> <<2025, 2, 23>>
    @@ 13 :> <<2025, 2, 24>>
    @@ 14 :> <<2025, 2, 25>>
    @@ 15 :> <<2025, 2, 26>>
    @@ 16 :> <<2025, 2, 27>>
    @@ 17 :> <<2025, 2, 28>>
    @@ 18 :> <<2025, 3, 1>>
    @@ 19 :> <<2025, 3, 2>>
    @@ 20 :> <<2025, 3, 3>>
    @@ 21 :> <<2025, 3, 4>>
    @@ 22 :> <<2025, 3, 5>>
    @@ 23 :> <<2025, 3, 6>>
    @@ 24 :> <<2025, 3, 7>>
    @@ 25 :> <<2025, 3, 8>>

\* date.isoformat(): "YYYY-MM-DD", held as its three zero-padded fields.
isoformat(d) == Calendar[d]

\* a <= b between two such texts, as SQLite compares texts: the first field that
\* differs decides.
text_leq(a, b) ==
    \/ a[1] < b[1]
    \/ a[1] = b[1] /\ a[2] < b[2]
    \/ a[1] = b[1] /\ a[2] = b[2] /\ a[3] <= b[3]

\* A slip in get_patient_visit_history: the window starts days, not days - 1,
\* days before today.
get_patient_visit_history_where_off_by_one(v, patient_id, days, today) ==
    /\ v.patient_id = patient_id
    /\ text_leq(isoformat(today - days), isoformat(v.date))
    /\ text_leq(isoformat(v.date), isoformat(today))

\* WHERE v.patient_id = ? AND v.date BETWEEN ? AND ?, bound to the ISO texts of
\* today - timedelta(days - 1) and of today; today is date.today().
get_patient_visit_history_where(v, patient_id, days, today) ==
    /\ v.patient_id = patient_id
    /\ text_leq(isoformat(today - (days - 1)), isoformat(v.date))
    /\ text_leq(isoformat(v.date), isoformat(today))

\* The dict get_patient_visit_history builds from a row; the doctor is LEFT JOINed.
get_patient_visit_history_dict(v) ==
    [id |-> v.id, date |-> v.date, time_in |-> v.time_in, time_out |-> v.time_out,
     service |-> v.service, status |-> v.status,
     vitals |-> IF truthy_str(v.vitals_json) THEN json_loads(v.vitals_json) ELSE EmptyDict,
     notes |-> v.doctor_notes, pharmacy_instructions |-> v.pharmacy_instructions,
     pharmacy_status |-> v.pharmacy_status,
     doctor_id |-> IF join_users(v) THEN v.assigned_doctor_id ELSE NoId,
     doctor_name |-> doctor_name(v)]

get_patient_visit_history(patient_id, days, today) ==
    LET rows == order_by_date_time_desc(
                    {<<v>> : v \in {w \in Range(visits) :
                        get_patient_visit_history_where(w, patient_id, days, today)}})
    IN [i \in DOMAIN rows |-> get_patient_visit_history_dict(rows[i][1])]

\* ------------------------------------------- claims on patients and queries
\* C11: in every state reached from the seeding by store operations, every visit's
\* patient_id is the id of a stored patient, and no operation removes a patient or
\* a visit.
C11_VisitsReferenceStoredPatients ==
    [][/\ \A v \in Range(visits) : v.patient_id \in patient_ids
       /\ \A v \in Range(visits') : v.patient_id \in patient_ids'
       /\ patient_ids \subseteq patient_ids'
       /\ visit_ids \subseteq visit_ids']_vars

\* C12: add_patient called with an empty full_name is rejected with a
\* ValidationError and adds no patient, so no stored patient has an empty
\* full_name.
C12_EmptyNameIsRejected ==
    [][(last'.op = "add_patient" /\ last'.full_name = "")
       => /\ last'.raised = "ValidationError"
          /\ patients' = patients
          /\ \A p \in Range(patients') : p.full_name # ""]_vars

\* C13: update_patient called with a patient_id that matches no stored patient
\* fails with NotFound, does not report success, and leaves the patients unchanged.
C13_UnknownPatientUpdateFails ==
    [][(last'.op = "update_patient" /\ last'.patient_id \notin patient_ids)
       => /\ last'.raised = "NotFound"
          /\ last'.returned # "True"
          /\ patients' = patients]_vars

\* Logins tried: a receptionist's and a doctor's mobile, and one no user has.
MobileArgs == {"0788365067", "7681969865", "0000000000"}
SecretArgs == {"recept123", "doctor123", "wrong", ""}

\* C14: authenticate_user(mobile, secret) returns the user's record exactly when a
\* user with that mobile exists and sha256(secret) is its stored hash; for an
\* unknown mobile and for a wrong secret it returns one and the same failure value.
C14_AuthenticateIsUniform ==
    \A mobile \in MobileArgs, secret \in SecretArgs :
        LET matching == {u \in Range(users) :
                            u.mobile = mobile /\ u.password_hash = sha256(secret)}
        IN IF matching # {}
           THEN \E u \in matching :
                    authenticate_user(mobile, secret) =
                        <<[id |-> u.id, name |-> u.name, mobile |-> u.mobile,
                           role |-> u.role]>>
           ELSE authenticate_user(mobile, secret) = << >>

C14_Witness ==
    /\ nops > 0
    /\ authenticate_user("7681969865", "doctor123") # << >>
    /\ authenticate_user("7681969865", "doctor123")[1].role = "doctor"
    /\ authenticate_user("7681969865", "recept123") = << >>
    /\ authenticate_user("0000000000", "doctor123") = << >>

\* search_visits of the variant in use, and the visit ids in its result.
search_visits_of_variant(search_term, role) ==
    IF variant = HMS THEN search_visits(search_term, role)
    ELSE search_visits_HMSP(search_term, role)
search_visits_ids(search_term, role) ==
    {search_visits_of_variant(search_term, role)[i].visit_id :
        i \in DOMAIN search_visits_of_variant(search_term, role)}

\* C15: for every stored visit v, whatever its patient's name and whether or not a
\* doctor is assigned to it, search_visits(str(v.id), "all") returns v, in both
\* variants.  Stated for the visits of a stored patient.
C15_SearchByIdFindsVisit ==
    \A v \in Range(visits) :
        v.patient_id \in patient_ids => v.id \in search_visits_ids(str(v.id), "all")

\* Search terms: the empty text, a number, a word of the seeded instructions and
\* a LIKE wildcard.
TermArgs == {"", "2", "pain", "_"}

\* C16: for every term, numeric or not, every visit search_visits(term, "pharmacy")
\* returns has pharmacy_status "Pending" or status "Visit Pharmacy", and is a visit
\* of get_visits_for_pharmacy().
C16_PharmacySearchWithinQueue ==
    \A term \in TermArgs :
        LET result == search_visits_of_variant(term, "pharmacy")
            queue == pharmacy_queue_ids
        IN \A i \in DOMAIN result :
              /\ result[i].pharmacy_status = "Pending" \/ result[i].status = "Visit Pharmacy"
              /\ result[i].visit_id \in queue

C16_Witness ==
    /\ nops > 0
    /\ \E i \in DOMAIN search_visits_of_variant("", "pharmacy") :
          search_visits_of_variant("", "pharmacy")[i].visit_id > seeded_visits
    /\ Len(search_visits_of_variant("", "pharmacy")) < Len(search_visits_of_variant("", "all"))
    /\ search_visits_of_variant("2", "pharmacy") = << >>
    /\ search_visits_of_variant("2", "all") # << >>

\* Does the text contain the term, letter case aside?  NULL contains nothing.
contains_text(text, term) ==
    /\ text # None
    /\ \E k \in 0..(Len(chars(text)) - Len(chars(term))) :
          \A m \in 1..Len(chars(term)) :
              lower(chars(text)[k + m]) = lower(chars(term)[m])

search_patients_of_variant(search_term) ==
    IF variant = HMS THEN search_patients(search_term)
    ELSE search_patients_HMSP(search_term)

\* The patients search_patients is to return for the term.
patients_matching(term) ==
    {p \in Range(patients) :
        \/ contains_text(p.full_name, term)
        \/ contains_text(p.address, term)
        \/ contains_text(p.dob, term)
        \/ int(term) # << >> /\ p.id = int(term)[1]}

\* Terms of the patient search: the empty text, a number, a name in lower case, a
\* text no patient has, and a LIKE wildcard.
PatientTermArgs == {"", "2", "john", "zz", "_"}

\* C17: search_patients with a term that is no number does not fail and returns
\* exactly the patients whose full_name, address or dob contains the term; with a
\* numeric term it returns, in addition, the patient whose id is that number.
C17_PatientSearchMatchesExactly ==
    \A term \in PatientTermArgs :
        Range(search_patients_of_variant(term)) = patients_matching(term)

\* The same, for the terms that hold no LIKE wildcard: this much holds.
C17_PatientSearchWithoutWildcards ==
    \A term \in PatientTermArgs \ {"_"} :
        Range(search_patients_of_variant(term)) = patients_matching(term)

\* The history is asked for on the day of the seeding and on the day after, for
\* one day, for the default five and for four.
TodayArgs == {Today, Today + 1}
DaysArgs == {1, 4, 5}
history_ids(patient_id, days, today) ==
    {get_patient_visit_history(patient_id, days, today)[i].id :
        i \in DOMAIN get_patient_visit_history(patient_id, days, today)}

\* C18: get_patient_visit_history(patient_id, days) returns exactly the patient's
\* visits whose date d has today - (days - 1) <= d <= today; for days = 5 and
\* today = D, every visit dated D - 4 .. D and none dated D - 5 or earlier.
C18_HistoryWindowIsInclusive ==
    \A patient_id \in SeededPatientIdArgs \cup {2}, days \in DaysArgs, today \in TodayArgs :
        history_ids(patient_id, days, today) =
            {v.id : v \in {w \in Range(visits) :
                /\ w.patient_id = patient_id
                /\ today - (days - 1) <= w.date
                /\ w.date <= today}}

C18_Witness ==
    /\ \E v \in Range(visits) :
          /\ v.patient_id = 2 /\ v.date = Today - 5
          /\ v.id \notin history_ids(2, 5, Today)
    /\ \E v \in Range(visits) :
          /\ v.patient_id = 2 /\ v.date = Today - 4
          /\ v.id \in history_ids(2, 5, Today)
          /\ v.id \notin history_ids(2, 5, Today + 1)
    /\ \E v \in Range(visits) :
          /\ v.patient_id = 1 /\ v.date = Today + 1
          /\ v.id \notin history_ids(1, 5, Today)
          /\ v.id \in history_ids(1, 5, Today + 1)

\* C19: update_patient replaces exactly full_name, address and dob of the patient
\* it addresses (dob as the empty text when none is given): that patient's id and
\* created_at, every other patient, and all visits are unchanged.
C19_UpdatePatientReplacesThreeFields ==
    [][last'.op = "update_patient"
       => /\ visits' = visits
          /\ users' = users
          /\ DOMAIN patients' = DOMAIN patients
          /\ \A i \in DOMAIN patients :
               patients'[i] =
                 IF patients[i].id = last'.patient_id
                 THEN [patients[i] EXCEPT
                         !.full_name = last'.full_name,
                         !.address = last'.address,
                         !.dob = IF truthy_str(last'.dob) THEN last'.dob ELSE ""]
                 ELSE patients[i]]_vars

C19_Witness ==
    /\ last.op = "update_patient"
    /\ last.patient_id = 1
    /\ patients[1].full_name = "Ama Mensah"
    /\ patients[1].address = "12 Ring Rd"
    /\ patients[1].created_at = SeedClock
    /\ Len(patients) > Len(sample_patients)
    /\ Len(visits) > seeded_visits

\* C20: update_patient is idempotent: in every state and for every argument
\* tuple, applying it twice in a row stores what applying it once stores.
C20_UpdatePatientIsIdempotent ==
    \A p \in SeededPatientIdArgs \cup {2}, f \in PatientForms :
        LET once == update_patient_rows(patients, p, f.full_name, f.address, f.dob)
        IN update_patient_rows(once, p, f.full_name, f.address, f.dob) = once

C20_Witness ==
    /\ last.op = "update_patient"
    /\ last.patient_id \in patient_ids
    /\ nops > 1
    /\ patients[last.patient_id].full_name = last.full_name
    /\ update_patient_rows(patients, last.patient_id, last.full_name, last.address,
                           last.dob) = patients
\* ------------------------------------------- further queries on the records
\* A slip in get_patient: the WHERE clause left out, so fetchone() takes the first
\* row of the table.
get_patient_where_any_row(p, patient_id) == TRUE

\* WHERE id = ? of get_patient.
get_patient_where(p, patient_id) == p.id = patient_id

\* get_patient: fetchone() of the patients with that id; << >> is the None it
\* returns when there is no row, <<d>> the dict d.
get_patient(patient_id) ==
    LET rows == SelectSeq(patients, LAMBDA p : get_patient_where(p, patient_id))
    IN IF rows = << >> THEN << >>
       ELSE <<[id |-> rows[1].id, full_name |-> rows[1].full_name,
               address |-> rows[1].address, dob |-> rows[1].dob,
               created_at |-> rows[1].created_at]>>

\* C21: right after add_patient(full_name, address, dob) has returned the id p,
\* get_patient(p) returns a patient whose full_name is the full_name passed, and p
\* is the id of no patient created before.
C21_GetAfterCreateReturnsName ==
    last.op = "add_patient"
    => /\ get_patient(last.rowid) # << >>
       /\ get_patient(last.rowid)[1].full_name = last.full_name
       /\ \A i \in 1..(Len(patients) - 1) : patients[i].id # last.rowid

C21_Witness ==
    /\ last.op = "add_patient"
    /\ last.full_name = "Ama Boateng"
    /\ last.rowid = Len(sample_patients) + 1
    /\ get_patient(last.rowid)[1].full_name = "Ama Boateng"
    /\ get_patient(1)[1].full_name = "John Doe"

\* u.id of LEFT JOIN users u ON v.assigned_doctor_id = u.id: NULL when no user
\* matches.
doctor_id(v) ==
    IF \E u \in Range(users) : u.id = v.assigned_doctor_id THEN v.assigned_doctor_id
    ELSE NoId

\* The dict get_visits_for_patient builds from a row of visits LEFT JOIN users.
get_visits_for_patient_dict(v) ==
    [id |-> v.id, date |-> v.date, time_in |-> v.time_in, time_out |-> v.time_out,
     service |-> v.service, status |-> v.status,
     vitals |-> IF truthy_str(v.vitals_json) THEN json_loads(v.vitals_json) ELSE EmptyDict,
     notes |-> v.doctor_notes, pharmacy_instructions |-> v.pharmacy_instructions,
     pharmacy_status |-> v.pharmacy_status,
     doctor_id |-> doctor_id(v), doctor_name |-> doctor_name(v)]

\* get_visits_for_patient: WHERE v.patient_id = ?, no join with patients.
get_visits_for_patient(patient_id) ==
    LET rows == order_by_date_time_desc({<<v>> : v \in {w \in Range(visits) :
                                                        w.patient_id = patient_id}})
    IN [i \in DOMAIN rows |-> get_visits_for_patient_dict(rows[i][1])]

\* The dict get_visits_for_doctor builds from a joined row.
get_visits_for_doctor_dict(vp) ==
    [visit_id |-> vp[1].id, patient_id |-> vp[1].patient_id,
     patient_name |-> vp[2].full_name, date |-> vp[1].date, time_in |-> vp[1].time_in,
     time_out |-> vp[1].time_out, service |-> vp[1].service, status |-> vp[1].status,
     vitals |-> IF truthy_str(vp[1].vitals_json) THEN json_loads(vp[1].vitals_json)
                ELSE EmptyDict,
     notes |-> vp[1].doctor_notes,
     pharmacy_instructions |-> vp[1].pharmacy_instructions,
     pharmacy_status |-> vp[1].pharmacy_status]

\* get_visits_for_doctor: visits JOIN patients WHERE v.assigned_doctor_id = ?.
get_visits_for_doctor(doctor_user_id) ==
    LET rows == order_by_date_time_desc(
                    {vp \in visits_join_patients : vp[1].assigned_doctor_id = doctor_user_id})
    IN [i \in DOMAIN rows |-> get_visits_for_doctor_dict(rows[i])]

\* Are the visits of a worklist in the order date descending, then time_in
\* descending?
ordered_by_date_time_desc(worklist) ==
    \A i \in 1..(Len(worklist) - 1) :
        \/ worklist[i].date > worklist[i + 1].date
        \/ /\ worklist[i].date = worklist[i + 1].date
           /\ worklist[i].time_in >= worklist[i + 1].time_in

\* The doctors the sample visits are assigned to, and a user who is no doctor.
DoctorIdArgs == {1, 3, 4, 5}

\* C22: the worklists get_visits_for_patient, get_visits_for_doctor and
\* get_visits_for_pharmacy are ordered by date descending, then time_in
\* descending: of two consecutive visits a, b, a.date > b.date, or a.date = b.date
\* and a.time_in >= b.time_in (dates and times compared as the stored texts are).
C22_WorklistsAreOrdered ==
    /\ \A patient_id \in SeededPatientIdArgs \cup {2} :
            ordered_by_date_time_desc(get_visits_for_patient(patient_id))
    /\ \A d \in DoctorIdArgs : ordered_by_date_time_desc(get_visits_for_doctor(d))
    /\ ordered_by_date_time_desc(get_visits_for_pharmacy)

C22_Witness ==
    LET byPatient == get_visits_for_patient(1)
        byDoctor == get_visits_for_doctor(3)
    IN /\ Len(byPatient) > SeedDays
       /\ \E i \in 1..(Len(byPatient) - 1) :
             /\ byPatient[i].date = byPatient[i + 1].date
             /\ byPatient[i].time_in > byPatient[i + 1].time_in
             /\ byPatient[i + 1].id > seeded_visits
       /\ byPatient[1].date = Today + 1
       /\ \E i \in 1..(Len(byDoctor) - 1) : byDoctor[i].visit_id > seeded_visits
       /\ \E i \in DOMAIN get_visits_for_pharmacy :
             get_visits_for_pharmacy[i].visit_id > seeded_visits
       /\ Len(get_visits_for_pharmacy) > 2

\* ------------------------------------------------------ the roles at work
\* The handlers of the three role frames, on a seeded database.  Each handler that
\* writes counts as one operation; at most MaxSaves of them are made.
MaxSaves == 2

\* The empty text in a time column: what an emptied time entry of the
\* receptionist's visit editor stores.  It occurs in time_out only.
EmptyTime == -2

\* Mobile number and password typed on the login frame.
LoginArgs ==
    {<<"0788365067", "recept123">>, <<"7681969865", "doctor123">>,
     <<"0777730606", "pharma123">>, <<"7681969865", "wrong">>}

\* The visits the windows are opened on: the first two sample visits (routed to
\* the pharmacy and pending; done and completed), the fourth, and the first visit
\* added to the sample visits.
RoleVisitArgs == {1, 2, 4, SeedDays * Len(vitals_samples) + 1}

\* get_doctors: the users with role doctor.
get_doctors == SelectSeq(users, LAMBDA u : u.role = "doctor")
doctor_ids == {get_doctors[i].id : i \in DOMAIN get_doctors}

\* login_success: the frame of the user's role is shown; with any other role the
\* login frame is shown again.
login_success(user_dict) ==
    IF user_dict.role \in {"receptionist", "doctor", "pharmacist"}
    THEN [user_id |-> user_dict.id, role |-> user_dict.role, visit_id |-> NoId]
    ELSE NoSession

\* LoginFrame.attempt_login of src/HMS.py: the mobile number is stripped, the
\* password is not; a failed login leaves the login frame as it is.
attempt_login(mobile_entry, password_entry) ==
    /\ variant = HMS
    /\ session.user_id = NoId
    /\ strip_text(mobile_entry) # "" /\ password_entry # ""
    /\ authenticate_user(strip_text(mobile_entry), password_entry) # << >>
    /\ session' = login_success(authenticate_user(strip_text(mobile_entry),
                                                   password_entry)[1])
    /\ UNCHANGED <<variant, users, patients, visits, last, nops>>

\* LoginFrame.perform_login of HospitalManagementSystem-Python/HMS.py: both entries
\* are stripped.
perform_login_HMSP(mobile_entry, password_entry) ==
    /\ variant = HMSP
    /\ session.user_id = NoId
    /\ strip_text(mobile_entry) # "" /\ strip_text(password_entry) # ""
    /\ authenticate_user(strip_text(mobile_entry), strip_text(password_entry)) # << >>
    /\ session' = login_success(authenticate_user(strip_text(mobile_entry),
                                                   strip_text(password_entry))[1])
    /\ UNCHANGED <<variant, users, patients, visits, last, nops>>

\* logout: the role frame is destroyed, and with it every window opened from it.
logout ==
    /\ session.user_id # NoId
    /\ session' = NoSession
    /\ UNCHANGED <<variant, users, patients, visits, last, nops>>

\* The row an INSERT INTO visits adds to the table.
visits_insert(rows, patient_id, assigned_doctor_id, visit_date, time_in, time_out, service, status, vitals_dict, doctor_notes, pharmacy_instructions, pharmacy_status) ==
    Append(rows,
        [id |-> Len(rows) + 1, patient_id |-> patient_id,
         assigned_doctor_id |-> assigned_doctor_id, date |-> visit_date,
         time_in |-> time_in, time_out |-> time_out, service |-> service,
         status |-> status,
         vitals_json |-> IF truthy_dict(vitals_dict) THEN json_dumps(vitals_dict[1])
                         ELSE None,
         doctor_notes |-> doctor_notes,
         pharmacy_instructions |-> pharmacy_instructions,
         pharmacy_status |-> pharmacy_status])

\* -------------------------------------------- receptionist, src/HMS.py
\* ReceptionistMain.submit_patient: the required fields checked, then add_patient
\* and add_visit with status "Scheduled", dated today at the time of the clock.
submit_patient(name, address, dob, doctor, service, now) ==
    /\ variant = HMS
    /\ session.role = "receptionist"
    /\ nops < MaxSaves
    /\ Len(patients) < seeded_patients + MaxPatients
    /\ Len(visits) < seeded_visits + MaxVisits
    /\ strip_text(name) # ""
    /\ doctor \in doctor_ids
    /\ strip_text(service) # ""
    /\ patients' = Append(patients,
            [id |-> Len(patients) + 1, full_name |-> strip_text(name),
             address |-> strip_text(address),
             dob |-> IF truthy_str(strip_text(dob)) THEN strip_text(dob) ELSE "",
             created_at |-> now])
    /\ visits' = visits_insert(visits, Len(patients) + 1, doctor, now[1], strftime_HM(now),
                               NoTime, strip_text(service), "Scheduled", <<EmptyDict>>,
                               None, None, add_visit_pharmacy_status("Scheduled"))
    /\ last' = [Call("submit_patient") EXCEPT !.patient_id = Len(patients) + 1,
                    !.visit_id = Len(visits) + 1, !.rowid = Len(visits) + 1,
                    !.status = "Scheduled", !.full_name = strip_text(name), !.now = now]
    /\ nops' = nops + 1
    /\ UNCHANGED <<variant, users, session>>

\* save_visit of ReceptionistMain.add_visit_for_patient, the window opened from the
\* details of a stored patient: doctor and service must be chosen; the date and the
\* time are taken as typed, the status is one of the combobox.
save_visit(patient_id, visit_date, time_in, doctor, service, status) ==
    /\ variant = HMS
    /\ session.role = "receptionist"
    /\ nops < MaxSaves
    /\ Len(visits) < seeded_visits + MaxVisits
    /\ get_patient(patient_id) # << >>
    /\ doctor \in doctor_ids
    /\ service # ""
    /\ status \in Statuses
    /\ visits' = visits_insert(visits, get_patient(patient_id)[1].id, doctor, visit_date,
                               time_in, NoTime, service, status, <<EmptyDict>>, None, None,
                               add_visit_pharmacy_status(status))
    /\ last' = [Call("save_visit") EXCEPT !.patient_id = patient_id,
                    !.visit_id = Len(visits) + 1, !.rowid = Len(visits) + 1,
                    !.status = status]
    /\ nops' = nops + 1
    /\ UNCHANGED <<variant, users, patients, session>>

\* ReceptionistMain.edit_visit_details: the window opens on a visit get_visit
\* returns.
edit_visit_details(visit_id) ==
    /\ variant = HMS
    /\ session.role = "receptionist"
    /\ session.visit_id = NoId
    /\ get_visit(visit_id) # << >>
    /\ session' = [session EXCEPT !.visit_id = visit_id]
    /\ UNCHANGED <<variant, users, patients, visits, last, nops>>

\* A time column as the entry of the visit editor shows it: visit[...] or "".
time_or_empty(t) == IF t = NoTime THEN EmptyTime ELSE t

\* A text column as a Text widget shows it: nothing for None.
text_or_empty(s) == IF s = None THEN "" ELSE s

\* save_changes of edit_visit_details: doctor and service must be there; update_visit
\* is called with the entries as they are and the vitals the window was opened
\* with, then the window closes.
edit_visit_details_save_changes(doctor, visit_date, time_in, time_out, service, status, notes, pharmacy_instructions) ==
    /\ variant = HMS
    /\ session.role = "receptionist"
    /\ session.visit_id # NoId
    /\ nops < MaxSaves
    /\ doctor \in doctor_ids
    /\ strip_text(service) # ""
    /\ visits' = [i \in DOMAIN visits |->
            IF visits[i].id = session.visit_id
            THEN update_visit_set(visits[i], doctor, visit_date, time_in, time_out, service,
                                  status, <<get_visit(session.visit_id)[1].vitals>>,
                                  strip_text(notes), strip_text(pharmacy_instructions))
            ELSE visits[i]]
    /\ last' = [Call("edit_visit_details.save_changes") EXCEPT
                    !.visit_id = session.visit_id, !.status = status]
    /\ nops' = nops + 1
    /\ session' = [session EXCEPT !.visit_id = NoId]
    /\ UNCHANGED <<variant, users, patients>>

\* What the receptionist saves in the visit editor opened on the visit v: the
\* entries as they were shown; the status set back to "Scheduled" and the time out
\* emptied; the visit given to another doctor.
edit_visit_forms(v) ==
    LET shown == [doctor |-> v.assigned_doctor_id, visit_date |-> v.date,
                  time_in |-> time_or_empty(v.time_in),
                  time_out |-> time_or_empty(v.time_out),
                  service |-> text_or_empty(v.service),
                  status |-> IF truthy_str(v.status) THEN v.status ELSE "Scheduled",
                  notes |-> text_or_empty(v.notes),
                  pharmacy_instructions |-> text_or_empty(v.pharmacy_instructions)]
    IN {shown,
        [shown EXCEPT !.status = "Scheduled", !.time_out = EmptyTime],
        [shown EXCEPT !.doctor = CHOOSE d \in doctor_ids : d # v.assigned_doctor_id]}

\* Cancel, or the close button of the window: the window opened on a visit closes.
close_window ==
    /\ variant = HMS
    /\ session.visit_id # NoId
    /\ session' = [session EXCEPT !.visit_id = NoId]
    /\ UNCHANGED <<variant, users, patients, visits, last, nops>>

\* ------------------------------------------------- doctor, src/HMS.py
\* A slip in open_visit_editor: the visit is looked up among all the stored visits.
open_visit_editor_finds_any_visit(doctor_user_id, visit_id) == visit_id \in visit_ids

\* next((v for v in get_visits_for_doctor(user id) if v["visit_id"] == visit_id), None)
\* finds a visit.
open_visit_editor_finds(doctor_user_id, visit_id) ==
    LET worklist == get_visits_for_doctor(doctor_user_id)
    IN \E i \in DOMAIN worklist : worklist[i].visit_id = visit_id

\* DoctorMain.open_visit_editor: the editor opens on a visit that is among the
\* doctor's; for any other id "Visit not found or not assigned to you" is shown.
open_visit_editor(visit_id) ==
    /\ variant = HMS
    /\ session.role = "doctor"
    /\ session.visit_id = NoId
    /\ open_visit_editor_finds(session.user_id, visit_id)
    /\ session' = [session EXCEPT !.visit_id = visit_id]
    /\ UNCHANGED <<variant, users, patients, visits, last, nops>>

\* vitals_fields: the placeholder an entry is filled with when the visit has no
\* value under the key.
Placeholder == [bp |-> "120/80", hr |-> "72", temp |-> "98.6", resp |-> "16", spo2 |-> "98"]

\* The value save_changes stores for the stripped text of an entry: int(value) for
\* hr, resp and spo2, float(value) for temp, and the text itself for bp and when
\* the conversion raises ValueError.
vitals_value(key, value) ==
    IF key \in {"hr", "resp", "spo2"}
    THEN (IF int(value) # << >> THEN ToString(int(value)[1]) ELSE json_string(value))
    ELSE IF key = "temp"
    THEN (IF float(value) # << >> THEN float(value)[1] ELSE json_string(value))
    ELSE json_string(value)

\* vitals_data of save_changes: an entry is taken when its stripped text is not
\* empty and is not the placeholder of its key.
vitals_data(entries) ==
    [key \in {k \in DOMAIN entries : /\ strip_text(entries[k]) # ""
                                     /\ strip_text(entries[k]) # Placeholder[k]}
        |-> vitals_value(key, strip_text(entries[key]))]

\* The values of the status combobox of the doctor's editor.
DoctorStatusOptions ==
    {"Scheduled", "In Progress", "Done", "Visit Pharmacy", "Come again", "Other"}

\* save_changes of open_visit_editor: routing to the pharmacy needs instructions;
\* status, notes, instructions and vitals are written by one UPDATE, then the
\* editor closes.  entries is the text of the five vitals fields; typed names the
\* fields the doctor entered something in (or emptied), which the record of the
\* call keeps.
open_visit_editor_save_changes(new_status, notes_entry, pharmacy_entry, entries, typed) ==
    /\ variant = HMS
    /\ session.role = "doctor"
    /\ session.visit_id # NoId
    /\ nops < MaxSaves
    /\ new_status \in DoctorStatusOptions
    /\ ~(new_status = "Visit Pharmacy" /\ strip_text(pharmacy_entry) = "")
    /\ visits' = [i \in DOMAIN visits |->
            IF visits[i].id = session.visit_id
            THEN [visits[i] EXCEPT !.status = new_status,
                                   !.doctor_notes = strip_text(notes_entry),
                                   !.pharmacy_instructions = strip_text(pharmacy_entry),
                                   !.vitals_json = json_dumps(vitals_data(entries))]
            ELSE visits[i]]
    /\ last' = [Call("open_visit_editor.save_changes") EXCEPT
                    !.visit_id = session.visit_id, !.status = new_status,
                    !.doctor_notes = strip_text(notes_entry),
                    !.pharmacy_instructions = strip_text(pharmacy_entry),
                    !.vitals_dict = <<vitals_data(entries)>>,
                    !.entries = <<[key \in typed |-> entries[key]]>>]
    /\ nops' = nops + 1
    /\ session' = [session EXCEPT !.visit_id = NoId]
    /\ UNCHANGED <<variant, users, patients>>

\* --------------------------------------------- pharmacist, src/HMS.py
\* PharmacistMain.process_pharmacy_order: the window opens on a visit of the queue.
process_pharmacy_order(visit_id) ==
    /\ variant = HMS
    /\ session.role = "pharmacist"
    /\ session.visit_id = NoId
    /\ visit_id \in pharmacy_queue_ids
    /\ session' = [session EXCEPT !.visit_id = visit_id]
    /\ UNCHANGED <<variant, users, patients, visits, last, nops>>

\* save_changes of process_pharmacy_order: update_pharmacy_status_and_timeout with
\* the status of the combobox, then the window closes.
process_pharmacy_order_save_changes(new_status, now) ==
    /\ variant = HMS
    /\ session.role = "pharmacist"
    /\ session.visit_id # NoId
    /\ nops < MaxSaves
    /\ new_status \in PharmacyStatuses
    /\ visits' = [i \in DOMAIN visits |->
            IF visits[i].id = session.visit_id
            THEN update_pharmacy_status_and_timeout_set(visits[i], new_status, now)
            ELSE visits[i]]
    /\ last' = [Call("process_pharmacy_order.save_changes") EXCEPT
                    !.visit_id = session.visit_id, !.status = new_status,
                    !.now = IF new_status = "Completed" THEN now ELSE << >>]
    /\ nops' = nops + 1
    /\ session' = [session EXCEPT !.visit_id = NoId]
    /\ UNCHANGED <<variant, users, patients>>

\* ------------- receptionist, HospitalManagementSystem-Python/HMS.py
\* str.isdigit() of a text of ASCII characters.
isdigit(cs) == cs # << >> /\ \A k \in DOMAIN cs : cs[k] \in DOMAIN DigitValue

\* text.replace(".", "", 1): the first point removed.
without_first_point(cs) ==
    IF \E k \in DOMAIN cs : cs[k] = "."
    THEN LET first == CHOOSE k \in DOMAIN cs :
                          cs[k] = "." /\ \A j \in 1..(k - 1) : cs[j] # "."
         IN SubSeq(cs, 1, first - 1) \o SubSeq(cs, first + 1, Len(cs))
    ELSE cs

\* The vitals NewVisitWindow.save_visit gathers: << >> stands for the ValueError
\* of a conversion, after which nothing is saved.
save_visit_vitals_HMSP(entries) ==
    IF \/ float(entries.hr) = << >> \/ float(entries.temp) = << >>
       \/ int(entries.resp) = << >> \/ int(entries.spo2) = << >>
    THEN << >>
    ELSE <<[bp |-> json_string(strip_text(entries.bp)), hr |-> float(entries.hr)[1],
            temp |-> float(entries.temp)[1], resp |-> ToString(int(entries.resp)[1]),
            spo2 |-> ToString(int(entries.spo2)[1])]>>

\* NewVisitWindow.save_visit, the window opened on the selected patient: the visit
\* is added for today, at the time of the clock, with status "Pending" and empty
\* notes.
save_visit_HMSP(patient_id, service_entry, doctor, entries, now) ==
    /\ variant = HMSP
    /\ session.role = "receptionist"
    /\ nops < MaxSaves
    /\ Len(visits) < seeded_visits + MaxVisits
    /\ get_patient(patient_id) # << >>
    /\ strip_text(service_entry) # ""
    /\ doctor \in doctor_ids
    /\ save_visit_vitals_HMSP(entries) # << >>
    /\ visits' = visits_insert(visits, get_patient(patient_id)[1].id, doctor, now[1],
                               strftime_HM(now), NoTime, strip_text(service_entry),
                               "Pending", save_visit_vitals_HMSP(entries), "", None,
                               add_visit_pharmacy_status_HMSP("Pending"))
    /\ last' = [Call("save_visit") EXCEPT !.patient_id = patient_id,
                    !.visit_id = Len(visits) + 1, !.rowid = Len(visits) + 1,
                    !.status = "Pending", !.entries = <<entries>>, !.now = now]
    /\ nops' = nops + 1
    /\ UNCHANGED <<variant, users, patients, session>>

\* ------------------- doctor, HospitalManagementSystem-Python/HMS.py
\* DoctorFrame.on_visit_select: a row of the visits tree, which load_doctor_visits
\* fills from get_visits_for_doctor, becomes the current visit.
on_visit_select_HMSP(visit_id) ==
    /\ variant = HMSP
    /\ session.role = "doctor"
    /\ LET worklist == get_visits_for_doctor(session.user_id)
       IN \E i \in DOMAIN worklist : worklist[i].visit_id = visit_id
    /\ session' = [session EXCEPT !.visit_id = visit_id]
    /\ UNCHANGED <<variant, users, patients, visits, last, nops>>

\* DoctorFrame.get_vitals_from_ui: every key is written; a numeric entry that is
\* not made of digits (and one point, for hr and temp) gives None.
get_vitals_from_ui_HMSP(entries) ==
    [bp |-> json_string(strip_text(entries.bp)),
     hr |-> IF isdigit(without_first_point(strip(chars(entries.hr))))
            THEN float(entries.hr)[1] ELSE "null",
     temp |-> IF isdigit(without_first_point(strip(chars(entries.temp))))
              THEN float(entries.temp)[1] ELSE "null",
     resp |-> IF isdigit(strip(chars(entries.resp))) THEN ToString(int(entries.resp)[1])
              ELSE "null",
     spo2 |-> IF isdigit(strip(chars(entries.spo2))) THEN ToString(int(entries.spo2)[1])
              ELSE "null"]

\* The values of the status combobox of the doctor's frame.
DoctorStatusOptions_HMSP == {"Pending", "Visit Pharmacy", "Done"}

\* DoctorFrame.save_doctor_notes: update_visit_status with the status of the
\* combobox and the notes, instructions and vitals of the frame; the visit stays
\* the current visit.  (Saving without notes is confirmed in a dialog.)
save_doctor_notes_HMSP(status, notes_text, pharma_text, entries) ==
    /\ variant = HMSP
    /\ session.role = "doctor"
    /\ session.visit_id # NoId
    /\ nops < MaxSaves
    /\ status \in DoctorStatusOptions_HMSP
    /\ visits' = [i \in DOMAIN visits |->
            IF visits[i].id = session.visit_id
            THEN update_visit_status_set_HMSP(visits[i], status, strip_text(notes_text),
                                              strip_text(pharma_text),
                                              <<get_vitals_from_ui_HMSP(entries)>>)
            ELSE visits[i]]
    /\ last' = [Call("save_doctor_notes") EXCEPT
                    !.visit_id = session.visit_id, !.status = status,
                    !.doctor_notes = strip_text(notes_text),
                    !.pharmacy_instructions = strip_text(pharma_text),
                    !.vitals_dict = <<get_vitals_from_ui_HMSP(entries)>>,
                    !.entries = <<entries>>]
    /\ nops' = nops + 1
    /\ UNCHANGED <<variant, users, patients, session>>

\* A slip in finalize_visit_and_send_to_pharmacy: the second call left out, so the
\* pharmacy sub-state stays what it was.
finalize_visit_set_without_pending_HMSP(row, notes, pharma_inst, vitals, now) ==
    update_visit_status_set_HMSP(row, "Visit Pharmacy", notes, pharma_inst, <<vitals>>)

\* The two statements of finalize_visit_and_send_to_pharmacy on a row:
\* update_visit_status(..., "Visit Pharmacy", ...) and then
\* update_pharmacy_status_and_timeout(..., "Pending").
finalize_visit_set_HMSP(row, notes, pharma_inst, vitals, now) ==
    update_pharmacy_status_and_timeout_set_HMSP(
        update_visit_status_set_HMSP(row, "Visit Pharmacy", notes, pharma_inst, <<vitals>>),
        "Pending", now)

\* DoctorFrame.finalize_visit_and_send_to_pharmacy on the current visit (sending
\* without instructions is confirmed in a dialog); afterwards no visit is current.
finalize_visit_and_send_to_pharmacy_HMSP(notes_text, pharma_text, entries, now) ==
    /\ variant = HMSP
    /\ session.role = "doctor"
    /\ session.visit_id # NoId
    /\ nops < MaxSaves
    /\ visits' = [i \in DOMAIN visits |->
            IF visits[i].id = session.visit_id
            THEN finalize_visit_set_HMSP(visits[i], strip_text(notes_text),
                                         strip_text(pharma_text),
                                         get_vitals_from_ui_HMSP(entries), now)
            ELSE visits[i]]
    /\ last' = [Call("finalize_visit_and_send_to_pharmacy") EXCEPT
                    !.visit_id = session.visit_id, !.status = "Visit Pharmacy",
                    !.doctor_notes = strip_text(notes_text),
                    !.pharmacy_instructions = strip_text(pharma_text),
                    !.vitals_dict = <<get_vitals_from_ui_HMSP(entries)>>,
                    !.entries = <<entries>>]
    /\ nops' = nops + 1
    /\ session' = [session EXCEPT !.visit_id = NoId]
    /\ UNCHANGED <<variant, users, patients>>

\* --------------- pharmacist, HospitalManagementSystem-Python/HMS.py
\* PharmacistFrame.on_queue_select: a row of the queue tree, which
\* load_pharmacy_queue fills from get_visits_for_pharmacy, becomes the current visit.
on_queue_select_HMSP(visit_id) ==
    /\ variant = HMSP
    /\ session.role = "pharmacist"
    /\ visit_id \in pharmacy_queue_ids
    /\ session' = [session EXCEPT !.visit_id = visit_id]
    /\ UNCHANGED <<variant, users, patients, visits, last, nops>>

\* PharmacistFrame.update_pharmacy_status, called by the two buttons with
\* "Completed" and "In Progress": update_pharmacy_status_and_timeout on the current
\* visit; afterwards no visit is current.
update_pharmacy_status_HMSP(new_status, now) ==
    /\ variant = HMSP
    /\ session.role = "pharmacist"
    /\ session.visit_id # NoId
    /\ nops < MaxSaves
    /\ new_status \in {"Completed", "In Progress"}
    /\ visits' = [i \in DOMAIN visits |->
            IF visits[i].id = session.visit_id
            THEN update_pharmacy_status_and_timeout_set_HMSP(visits[i], new_status, now)
            ELSE visits[i]]
    /\ last' = [Call("update_pharmacy_status") EXCEPT
                    !.visit_id = session.visit_id, !.status = new_status,
                    !.now = IF new_status = "Completed" THEN now ELSE << >>]
    /\ nops' = nops + 1
    /\ session' = [session EXCEPT !.visit_id = NoId]
    /\ UNCHANGED <<variant, users, patients>>

\* ------------------------------------------------ what the users enter
\* The text a field of the editor shows for a stored value.
shown_text(token) ==
    IF \E text \in DOMAIN Spelling : json_string(text) = token
    THEN CHOOSE text \in DOMAIN Spelling : json_string(text) = token
    ELSE token

\* The vitals fields as the editor opens: StringVar(value=visit["vitals"].get(key, "")),
\* and the placeholder inserted where that is empty.
entries_shown(vitals) ==
    [key \in DOMAIN Placeholder |->
        IF key \in DOMAIN vitals /\ shown_text(vitals[key]) # ""
        THEN shown_text(vitals[key]) ELSE Placeholder[key]]

\* Vitals typed into the doctor's editor in src/HMS.py: every field filled in; 72
\* entered as the heart rate and the other fields emptied; a padded heart rate and
\* a temperature with a trailing zero, the other fields emptied.
EntriesFilled == [bp |-> "130/85", hr |-> "80", temp |-> "99.1", resp |-> "18", spo2 |-> "97"]
EntriesHeartRate72 == [bp |-> "", hr |-> "72", temp |-> "", resp |-> "", spo2 |-> ""]
EntriesPadded == [bp |-> "", hr |-> " 65", temp |-> "98.60", resp |-> "", spo2 |-> ""]

\* What the doctor submits in the editor opened on visit v: the vitals fields left
\* as shown, or typed.
DoctorForms(v) ==
    {[status |-> "Other", notes |-> "Rest", pharmacy |-> "",
      entries |-> entries_shown(v.vitals), typed |-> {}],
     [status |-> "In Progress", notes |-> "Follow up", pharmacy |-> "",
      entries |-> EntriesFilled, typed |-> DOMAIN Placeholder],
     [status |-> "Visit Pharmacy", notes |-> "Rest", pharmacy |-> "Dispense ibuprofen",
      entries |-> EntriesHeartRate72, typed |-> DOMAIN Placeholder],
     [status |-> "Done", notes |-> "", pharmacy |-> "", entries |-> EntriesPadded,
      typed |-> DOMAIN Placeholder]}

\* Vitals entries in HospitalManagementSystem-Python/HMS.py: the defaults of the
\* new-visit window, and "N/A" in every field as the doctor's frame shows a visit
\* without vitals.
EntriesDefault_HMSP == [bp |-> "120/80", hr |-> "75", temp |-> "98.6", resp |-> "16", spo2 |-> "98"]
EntriesNotAvailable_HMSP == [bp |-> "N/A", hr |-> "N/A", temp |-> "N/A", resp |-> "N/A", spo2 |-> "N/A"]

DoctorForms_HMSP ==
    {[status |-> "Pending", notes |-> "Rest", pharmacy |-> "",
      entries |-> EntriesNotAvailable_HMSP],
     [status |-> "Visit Pharmacy", notes |-> "Follow up", pharmacy |-> "Dispense ibuprofen",
      entries |-> EntriesFilled],
     [status |-> "Done", notes |-> "Rest", pharmacy |-> "",
      entries |-> EntriesNotAvailable_HMSP]}

FinalizeForms_HMSP ==
    {[notes |-> "Rest", pharmacy |-> "Dispense ibuprofen", entries |-> EntriesFilled],
     [notes |-> "", pharmacy |-> "", entries |-> EntriesNotAvailable_HMSP]}

\* The visit the window of the session is open on, as get_visit returns it.
session_visits == IF session.visit_id = NoId THEN {} ELSE {get_visit(session.visit_id)[1]}

RolesNext ==
    \/ \E a \in LoginArgs : attempt_login(a[1], a[2])
    \/ \E a \in LoginArgs : perform_login_HMSP(a[1], a[2])
    \/ logout
    \/ close_window
    \/ \E n \in NameArgs, sv \in ServiceArgs, now \in SeededClock :
            submit_patient(n, "", "", get_doctors[1].id, sv, now)
    \/ \E st \in {"Scheduled", "Visit Pharmacy"}, ti \in TimeInArgs, sv \in ServiceArgs :
            save_visit(1, Today, ti, get_doctors[1].id, sv, st)
    \/ \E v \in RoleVisitArgs : edit_visit_details(v)
    \/ \E v \in session_visits : \E f \in edit_visit_forms(v) :
            edit_visit_details_save_changes(f.doctor, f.visit_date, f.time_in, f.time_out,
                                            f.service, f.status, f.notes,
                                            f.pharmacy_instructions)
    \/ \E v \in RoleVisitArgs : open_visit_editor(v)
    \/ \E v \in session_visits : \E f \in DoctorForms(v) :
            open_visit_editor_save_changes(f.status, f.notes, f.pharmacy, f.entries,
                                           f.typed)
    \/ \E v \in RoleVisitArgs : process_pharmacy_order(v)
    \/ \E st \in {"Completed", "In Progress"}, now \in SeededClock :
            process_pharmacy_order_save_changes(st, now)
    \/ \E sv \in ServiceArgs, now \in SeededClock :
            save_visit_HMSP(1, sv, get_doctors[1].id, EntriesDefault_HMSP, now)
    \/ \E v \in RoleVisitArgs : on_visit_select_HMSP(v)
    \/ \E f \in DoctorForms_HMSP :
            save_doctor_notes_HMSP(f.status, f.notes, f.pharmacy, f.entries)
    \/ \E f \in FinalizeForms_HMSP, now \in SeededClock :
            finalize_visit_and_send_to_pharmacy_HMSP(f.notes, f.pharmacy, f.entries, now)
    \/ \E v \in RoleVisitArgs : on_queue_select_HMSP(v)
    \/ \E st \in {"Completed", "In Progress"}, now \in SeededClock :
            update_pharmacy_status_HMSP(st, now)

RolesSpec == SeededInit /\ [][RolesNext]_vars

\* ------------------------------------------------------------ the workflow
\* C23: in every reachable state, every visit status assigned by the workflow
\* (seeding, receptionist visit creation and edit, doctor save and finalize,
\* pharmacist completion) is one of Scheduled, In Progress, Done, Visit Pharmacy,
\* Come again.
C23_WorkflowStatusesAreTheFive == \A i \in DOMAIN visits : visits[i].status \in Statuses

\* C24: "Done" is terminal: no operation of any role changes the status of a
\* visit whose status is "Done" to another value.
C24_DoneIsTerminal ==
    [][\A i \in DOMAIN visits : visits[i].status = "Done" => visits'[i].status = "Done"]_vars

\* C25: in HospitalManagementSystem-Python/HMS.py, in every state reachable by
\* seeding and role actions, a visit whose pharmacy_status is "Completed" has
\* status "Done".
C25_CompletedStaysDone ==
    variant = HMSP =>
        \A i \in DOMAIN visits :
            visits[i].pharmacy_status = "Completed" => visits[i].status = "Done"

\* C26: in every state reachable by seeding and calls of add_visit, update_visit,
\* update_visit_status and update_pharmacy_status_and_timeout, a visit whose
\* pharmacy_status is "Completed" has a time_out that is neither null nor the
\* empty string.
C26_CompletedHasTimeOut ==
    \A i \in DOMAIN visits :
        visits[i].pharmacy_status = "Completed" => visits[i].time_out \notin {NoTime, EmptyTime}

\* C27: in HospitalManagementSystem-Python/HMS.py, after
\* finalize_visit_and_send_to_pharmacy on the selected visit, whatever its earlier
\* status and pharmacy_status, the visit has status "Visit Pharmacy" and
\* pharmacy_status "Pending" and get_visits_for_pharmacy() returns it.
C27_FinalizeRoutesToPharmacy ==
    (variant = HMSP /\ last.op = "finalize_visit_and_send_to_pharmacy") =>
        /\ visit_row(last.visit_id).status = "Visit Pharmacy"
        /\ visit_row(last.visit_id).pharmacy_status = "Pending"
        /\ last.visit_id \in pharmacy_queue_ids

\* A seeded visit that was Done and Completed has been finalized by its doctor, as
\* the first write after seeding.
C27_Witness ==
    /\ variant = HMSP
    /\ last.op = "finalize_visit_and_send_to_pharmacy"
    /\ nops = 1
    /\ seed_visits_HMSP(Today)[last.visit_id].id = last.visit_id
    /\ seed_visits_HMSP(Today)[last.visit_id].status = "Done"
    /\ seed_visits_HMSP(Today)[last.visit_id].pharmacy_status = "Completed"
    /\ last.visit_id \in pharmacy_queue_ids

\* get_pending_pharmacy_count: SELECT COUNT(*) FROM visits WHERE pharmacy_status =
\* 'Pending'.
get_pending_pharmacy_count ==
    Cardinality({i \in DOMAIN visits : visits[i].pharmacy_status = "Pending"})

\* C28: in src/HMS.py, in every reachable state of the store,
\* get_pending_pharmacy_count() is at most the number of visits
\* get_visits_for_pharmacy() returns.
C28_PendingCountWithinQueue ==
    variant = HMS => get_pending_pharmacy_count <= Len(get_visits_for_pharmacy)

\* C29: in src/HMS.py, a logged-in doctor opens the visit editor only on a visit
\* whose assigned_doctor_id is the doctor's user id, and no step taken while a
\* doctor is logged in modifies a visit assigned to another doctor or to none.
C29_DoctorSavesOnlyOwnVisits ==
    [][(variant = HMS /\ session.role = "doctor") =>
        /\ session'.visit_id # NoId =>
                visit_row(session'.visit_id).assigned_doctor_id = session.user_id
        /\ \A i \in DOMAIN visits :
                visits'[i] # visits[i] => visits[i].assigned_doctor_id = session.user_id]_vars

\* A doctor has saved the editor on a visit of theirs while the store holds
\* visits of other doctors.
C29_Witness ==
    /\ variant = HMS
    /\ last.op = "open_visit_editor.save_changes"
    /\ session.role = "doctor"
    /\ visit_row(last.visit_id).assigned_doctor_id = session.user_id
    /\ \E v \in Range(visits) : v.assigned_doctor_id # session.user_id

\* The values an entered text may be stored as: the text, or the number it spells.
entered_value(text) ==
    {json_string(text)}
    \cup (IF int(text) # << >> THEN {ToString(int(text)[1])} ELSE {})
    \cup (IF float(text) # << >> THEN {float(text)[1]} ELSE {})

\* C30: in src/HMS.py, after the doctor saves the visit editor, every vitals field
\* in which a value was entered is stored under its key with that value, and a
\* key is absent from the stored vitals only when its field was left empty.
C30_EnteredVitalsAreStored ==
    (variant = HMS /\ last.op = "open_visit_editor.save_changes") =>
        LET typed == last.entries[1]
            stored == get_visit(last.visit_id)[1].vitals
        IN \A key \in DOMAIN typed :
              /\ strip_text(typed[key]) # "" =>
                    key \in DOMAIN stored /\ stored[key] \in entered_value(strip_text(typed[key]))
              /\ key \notin DOMAIN stored => strip_text(typed[key]) = ""
====
